---- MODULE Spec2Model ----
(***************************************************************************)
(* Rate-limiting library: the local limiters of                            *)
(* implementations/typescript/examples.ts (token bucket, leaky bucket,     *)
(* fixed window, sliding-window log, sliding-window counter, concurrent    *)
(* requests, multi-tier), the storage-backed                               *)
(* DistributedSlidingWindowCounter of the same file, and                   *)
(* the Redis-backed counters of implementations/typescript/redis-adapter.ts*)
(*                                                                         *)
(* Time is Date.now() in milliseconds, advanced by Tick.  Numbers that the *)
(* code holds as floats are held exactly: token counts in thousandths of a *)
(* token (elapsed ms * tokens per second is a whole number of thousandths),*)
(* quotients as numerator/denominator pairs.                               *)
(***************************************************************************)
EXTENDS Integers, Sequences, FiniteSets, TLC

----------------------------------------------------------------------------
(* Bounds of the model. *)

StartTime == 1
MaxTime == 7
MaxCapacity == 2
MaxCost == 2
MaxLimit == 2
MaxWindow == 3
MaxConcurrent == 3
MaxTiers == 2
MaxRunUnits == 5
NumCallers == 2
MaxCalls == 3
MaxSharedTime == 4
MaxInterval == 3
MaxBurst == 2
MaxResets == 1
MaxLeakTime == 5
MaxFailureTime == 2
MaxFailureCalls == 2
MaxTransitionTime == 21
MaxCapTime == 5
MaxGap == 3

(* Date.now() is in milliseconds; rates are per second. *)
MsPerSec == 1000

Costs == 1..MaxCost
Capacities == 0..MaxCapacity
Times == 0..MaxTime
Limits == 0..MaxLimit
(* windowSize in ms: the constructors take seconds and multiply by 1000.   *)
WindowSizes == 1..MaxWindow

(* Refill and leak rates, per second: one unit every 2 ms, 1 ms, half ms.  *)
Rates == {500, 1000, 2000}

Min(a, b) == IF a <= b THEN a ELSE b
Max(a, b) == IF a >= b THEN a ELSE b

(* Math.floor(p / q) for q > 0. *)
Floor(p, q) == p \div q

(* A quotient num/den, den > 0, kept exact. *)
Rat(n, d) == [present |-> TRUE, num |-> n, den |-> d]
NoRat == [present |-> FALSE, num |-> 0, den |-> 1]

(* JavaScript truthiness of a number: 0 is falsy. *)
Truthy(x) == x # 0

----------------------------------------------------------------------------
VARIABLES
  now,         \* Date.now(), ms
  under,       \* the class of the limiter that was constructed
  result,      \* the RateLimitResult of the last allowRequest, with the call
  admittedAt,  \* history: admittedAt[t] = total cost admitted at time t
  tb,          \* TokenBucketLimiter: capacity, refillRate, tokens, lastRefill
  tbh,         \* history of the token bucket's calls
  lb,          \* LeakyBucketLimiter: capacity, leakRate, queue, lastLeak
  twin,        \* a second leaky bucket, given the same calls but no accessor
  lbh,         \* history of the leaky bucket's calls
  fw,          \* FixedWindowLimiter: windowSize, limit, windowStart, count
  fwh,         \* history of the fixed window's calls
  swl,         \* SlidingWindowLogLimiter: windowSize, limit, requests
  swc,         \* SlidingWindowCounterLimiter: windowSize, limit, two windows
  swch,        \* history of the sliding-window counter's calls
  cr,          \* ConcurrentRequestsLimiter: maxConcurrent, activeRequests
  crh,         \* history of the concurrent limiter's calls
  mt,          \* MultiTierLimiter: limiters, and a stand-alone copy of each
  mth,         \* history of the multi-tier calls
  shared,      \* the shared counter's configuration: windowSize, limit
  store,       \* the shared store (Redis, or a MemoryStorage): key -> entry
  callers,     \* every caller's call in flight: its position and its locals
  wh,          \* history: per window start, the calls issued and admitted
  mw           \* the rateLimit middleware: its limiter map and its requests

vars == <<now, under, result, admittedAt, tb, tbh, lb, twin, lbh, fw, fwh, swl,
          swc, swch, cr, crh, mt, mth, shared, store, callers, wh, mw>>

(* interface RateLimitResult, with the call that produced it. resetAt is   *)
(* in ms and retryAfter in seconds, both exact quotients.                  *)
Decision(op, cost, allowed, limit, remaining, resetAt, retryAfter) ==
  [op |-> op, cost |-> cost, allowed |-> allowed, limit |-> limit,
   remaining |-> remaining, resetAt |-> resetAt, retryAfter |-> retryAfter]

NoDecision == Decision("none", 0, FALSE, 0, 0, NoRat, NoRat)

NoHistory == [t \in Times |-> 0]

Record(hist, t, cost) == [hist EXCEPT ![t] = @ + cost]

(* The clock: Date.now() never goes back. *)
Tick ==
  /\ now < MaxTime
  /\ now' = now + 1

----------------------------------------------------------------------------
(* TokenBucketLimiter.  tokens is in thousandths of a token. *)

TokenScale == MsPerSec

TokenBucketNew(capacity, refillRate, t) ==
  [capacity |-> capacity, refillRate |-> refillRate,
   tokens |-> capacity * TokenScale, lastRefill |-> t]

(* Mutant: a refill that adds nothing. *)
TokensToAddNone(b, t) == 0

(* elapsed * refillRate with elapsed = (now - lastRefill) / 1000 *)
TokensToAdd(b, t) == (t - b.lastRefill) * b.refillRate

(* Mutant: the refill without Math.min(capacity, ...). *)
TokenCapMissing(b, tokens) == tokens

(* Mutant: a cap of at least one token. *)
TokenCapAtLeastOne(b, tokens) == Min(Max(b.capacity, 1) * TokenScale, tokens)

TokenCap(b, tokens) == Min(b.capacity * TokenScale, tokens)

Refill(b, t) ==
  [b EXCEPT !.tokens = TokenCap(b, b.tokens + TokensToAdd(b, t)),
            !.lastRefill = t]

(* Mutant: the admission test with > for >=. *)
TokenBucketAdmitsStrict(b, cost) == b.tokens > cost * TokenScale

TokenBucketAdmits(b, cost) == b.tokens >= cost * TokenScale

TokenBucketTake(b, cost) == [b EXCEPT !.tokens = @ - cost * TokenScale]

TokenBucketAllow(b, t, cost) ==
  LET r == Refill(b, t)
      a == TokenBucketTake(r, cost)
      needed == cost * TokenScale - r.tokens
  IN  IF TokenBucketAdmits(r, cost)
      THEN [state |-> a,
            result |-> Decision("allow", cost, TRUE, b.capacity,
                         Floor(a.tokens, TokenScale),
                         Rat(t * b.refillRate + (b.capacity * TokenScale - a.tokens),
                             b.refillRate),
                         NoRat)]
      ELSE [state |-> r,
            result |-> Decision("allow", cost, FALSE, b.capacity, 0,
                         Rat(t * b.refillRate + needed, b.refillRate),
                         Rat(needed, TokenScale * b.refillRate))]

TokenBucketAllowRequest(cost) ==
  LET out == TokenBucketAllow(tb, now, cost)
  IN  /\ tb' = out.state
      /\ result' = out.result
      /\ UNCHANGED <<now, admittedAt>>

TokenBucketGetTokens ==
  /\ tb' = Refill(tb, now)
  /\ result' = [NoDecision EXCEPT !.op = "getTokens"]
  /\ UNCHANGED <<now, admittedAt>>

TokenBucketReset ==
  /\ tb' = [tb EXCEPT !.tokens = tb.capacity * TokenScale, !.lastRefill = now]
  /\ result' = [NoDecision EXCEPT !.op = "reset"]
  /\ UNCHANGED <<now, admittedAt>>

(* The history kept of the token bucket: born is the time it was           *)
(* constructed; fresh holds while every call so far was an allowRequest(1) *)
(* made at that time; n counts those calls, up to capacity + 1.  A run is   *)
(* a series of allowRequest(1) made at one time, runAt, the first of which *)
(* found the bucket with 0 tokens, left so by a call at time zero; run     *)
(* counts its calls, up to capacity + 2, and is 0 when there is no run.    *)
TokenBucketHistoryNew(t) ==
  [born |-> t, fresh |-> TRUE, n |-> 0, zero |-> -1, runAt |-> -1, run |-> 0]

TokenBucketObserve(cost) ==
  LET fresh == tbh.fresh /\ cost = 1 /\ now = tbh.born
      goesOn == tbh.run > 0 /\ cost = 1 /\ now = tbh.runAt
      starts == ~goesOn /\ cost = 1 /\ tb.tokens = 0
  IN  tbh' = [tbh EXCEPT
                !.fresh = fresh,
                !.n = IF fresh THEN Min(@ + 1, tb.capacity + 1) ELSE 0,
                !.zero = IF goesOn THEN @ ELSE IF starts THEN tb.lastRefill ELSE -1,
                !.runAt = IF goesOn THEN @ ELSE IF starts THEN now ELSE -1,
                !.run = IF goesOn THEN Min(@ + 1, tb.capacity + 2)
                        ELSE IF starts THEN 1 ELSE 0]

TokenBucketObserveOther ==
  tbh' = [tbh EXCEPT !.fresh = FALSE, !.n = 0,
                     !.zero = -1, !.runAt = -1, !.run = 0]

----------------------------------------------------------------------------
(* LeakyBucketLimiter.  queue holds the admission time of every slot. *)

LeakyBucketNew(capacity, leakRate, t) ==
  [capacity |-> capacity, leakRate |-> leakRate, queue |-> <<>>, lastLeak |-> t]

(* Mutant: elapsed taken in ms. *)
RequestsToLeakPerMs(b, t) == (t - b.lastLeak) * b.leakRate

(* Math.floor(elapsed * leakRate) with elapsed = (now - lastLeak) / 1000 *)
RequestsToLeak(b, t) == Floor((t - b.lastLeak) * b.leakRate, MsPerSec)

(* queue.shift(), n times *)
Shift(q, n) == SubSeq(q, n + 1, Len(q))

LeakCount(b, t) == Min(RequestsToLeak(b, t), Len(b.queue))

(* Mutant: a drain that empties the queue. *)
LeakAll(b, t) == [b EXCEPT !.queue = <<>>, !.lastLeak = t]

Leak(b, t) ==
  [b EXCEPT !.queue = Shift(b.queue, LeakCount(b, t)), !.lastLeak = t]

(* Mutant: the admission test without the cost of the request. *)
LeakyBucketAdmitsAnyCost(b, cost) == Len(b.queue) < b.capacity

LeakyBucketAdmits(b, cost) == Len(b.queue) + cost <= b.capacity

(* queue.push(Date.now()), cost times *)
Push(q, t, cost) == q \o [i \in 1..cost |-> t]

LeakyBucketAllow(b, t, cost) ==
  LET l == Leak(b, t)
      a == [l EXCEPT !.queue = Push(l.queue, t, cost)]
      over == Len(l.queue) - l.capacity + cost
  IN  IF LeakyBucketAdmits(l, cost)
      THEN [state |-> a,
            result |-> Decision("allow", cost, TRUE, b.capacity,
                         a.capacity - Len(a.queue),
                         Rat(t * b.leakRate + Len(a.queue) * MsPerSec, b.leakRate),
                         NoRat)]
      ELSE [state |-> l,
            result |-> Decision("allow", cost, FALSE, b.capacity, 0,
                         Rat(t * b.leakRate + over * MsPerSec, b.leakRate),
                         Rat(over, b.leakRate))]

LeakyBucketAllowRequest(cost) ==
  LET out == LeakyBucketAllow(lb, now, cost)
  IN  /\ lb' = out.state
      /\ result' = out.result
      /\ UNCHANGED <<now, admittedAt>>

LeakyBucketGetQueueLength ==
  /\ lb' = Leak(lb, now)
  /\ result' = [NoDecision EXCEPT !.op = "getQueueLength"]
  /\ UNCHANGED <<now, admittedAt>>

LeakyBucketReset ==
  /\ lb' = [lb EXCEPT !.queue = <<>>, !.lastLeak = now]
  /\ result' = [NoDecision EXCEPT !.op = "reset"]
  /\ UNCHANGED <<now, admittedAt>>

(* The twin: a leaky bucket of the same configuration that is given every  *)
(* allowRequest and reset of lb at the same time, and no getQueueLength.   *)
TwinNew(b) == [state |-> b, result |-> NoDecision]

TwinAllowRequest(cost) ==
  LET out == LeakyBucketAllow(twin.state, now, cost)
  IN  twin' = [state |-> out.state, result |-> out.result]

TwinReset ==
  twin' = [twin EXCEPT !.state = [@ EXCEPT !.queue = <<>>, !.lastLeak = now]]

(* History: total[t] is the cost admitted at time t, since[t] the cost     *)
(* admitted at time t after the last reset(); resets counts the resets.    *)
LeakyBucketHistoryNew ==
  [total |-> NoHistory, since |-> NoHistory, resets |-> 0]

LeakyBucketObserve(cost) ==
  LET admitted == IF LeakyBucketAllow(lb, now, cost).result.allowed
                  THEN cost ELSE 0
  IN  lbh' = [lbh EXCEPT !.total = Record(@, now, admitted),
                         !.since = Record(@, now, admitted)]

LeakyBucketObserveReset ==
  lbh' = [lbh EXCEPT !.since = NoHistory, !.resets = @ + 1]

----------------------------------------------------------------------------
(* SlidingWindowLogLimiter.  requests holds one timestamp per admitted     *)
(* unit of cost, oldest first.                                             *)

SlidingWindowLogNew(windowSize, limit) ==
  [windowSize |-> windowSize, limit |-> limit, requests |-> <<>>]

(* Mutant: a cutoff one millisecond late, which drops a live entry. *)
CutoffLate(s, t) == t - s.windowSize + 1

Cutoff(s, t) == t - s.windowSize

(* while (requests.length > 0 && requests[0] <= cutoff) requests.shift() *)
RECURSIVE DropOld(_, _)
DropOld(q, cutoff) ==
  IF Len(q) > 0 /\ q[1] <= cutoff THEN DropOld(Tail(q), cutoff) ELSE q

RemoveOldRequests(s, t) ==
  [s EXCEPT !.requests = DropOld(s.requests, Cutoff(s, t))]

SlidingWindowLogAdmits(s, cost) == Len(s.requests) + cost <= s.limit

SlidingWindowLogAllow(s, t, cost) ==
  LET r == RemoveOldRequests(s, t)
      a == [r EXCEPT !.requests = Push(r.requests, t, cost)]
      \* this.requests[0], undefined (falsy) on an empty log
      head == IF Len(r.requests) > 0 THEN r.requests[1] ELSE 0
      \* this.requests[0] || now
      oldest == IF Truthy(a.requests[1]) THEN a.requests[1] ELSE t
  IN  IF SlidingWindowLogAdmits(r, cost)
      THEN [state |-> a,
            result |-> Decision("allow", cost, TRUE, s.limit,
                         s.limit - Len(a.requests),
                         Rat(oldest + s.windowSize, 1), NoRat)]
      ELSE [state |-> r,
            result |-> Decision("allow", cost, FALSE, s.limit, 0,
                         IF Truthy(head) THEN Rat(head + s.windowSize, 1)
                                         ELSE Rat(t, 1),
                         IF Truthy(head)
                         THEN Rat(Max(0, head + s.windowSize - t), MsPerSec)
                         ELSE Rat(0, 1))]

SlidingWindowLogAllowRequest(cost) ==
  LET out == SlidingWindowLogAllow(swl, now, cost)
  IN  /\ swl' = out.state
      /\ result' = out.result
      /\ admittedAt' = IF out.result.allowed
                       THEN Record(admittedAt, now, cost) ELSE admittedAt
      /\ UNCHANGED now

SlidingWindowLogGetRequestCount ==
  /\ swl' = RemoveOldRequests(swl, now)
  /\ result' = [NoDecision EXCEPT !.op = "getRequestCount"]
  /\ UNCHANGED <<now, admittedAt>>

(* reset(); the history starts again with the log *)
SlidingWindowLogReset ==
  /\ swl' = [swl EXCEPT !.requests = <<>>]
  /\ result' = [NoDecision EXCEPT !.op = "reset"]
  /\ admittedAt' = NoHistory
  /\ UNCHANGED now

(* Total cost admitted at the times from..to. *)
RECURSIVE AdmittedIn(_, _, _)
AdmittedIn(hist, from, to) ==
  IF to < from \/ to < 0 THEN 0
  ELSE (IF to \in DOMAIN hist THEN hist[to] ELSE 0) + AdmittedIn(hist, from, to - 1)

----------------------------------------------------------------------------
(* ConcurrentRequestsLimiter. *)

ConcurrentNew(maxConcurrent) ==
  [maxConcurrent |-> maxConcurrent, activeRequests |-> 0]

(* Mutant: the admission test without the cost of the request. *)
ConcurrentAdmitsAnyCost(c, cost) == c.activeRequests < c.maxConcurrent

ConcurrentAdmits(c, cost) == c.activeRequests + cost <= c.maxConcurrent

(* Mutant: a rejection that carries a retryAfter. *)
ConcurrentAllowWithRetry(c, cost) ==
  IF ConcurrentAdmits(c, cost)
  THEN [state |-> [c EXCEPT !.activeRequests = @ + cost],
        result |-> Decision("allow", cost, TRUE, c.maxConcurrent,
                     c.maxConcurrent - (c.activeRequests + cost), Rat(0, 1), NoRat)]
  ELSE [state |-> c,
        result |-> Decision("allow", cost, FALSE, c.maxConcurrent, 0,
                     Rat(0, 1), Rat(1, 1))]

ConcurrentAllow(c, cost) ==
  IF ConcurrentAdmits(c, cost)
  THEN [state |-> [c EXCEPT !.activeRequests = @ + cost],
        result |-> Decision("allow", cost, TRUE, c.maxConcurrent,
                     c.maxConcurrent - (c.activeRequests + cost), Rat(0, 1), NoRat)]
  ELSE [state |-> c,
        result |-> Decision("allow", cost, FALSE, c.maxConcurrent, 0,
                     Rat(0, 1), NoRat)]

(* Mutant: the release without Math.max(0, ...). *)
ReleasedUnclamped(active, cost) == active - cost

(* Math.max(0, activeRequests - tokens) *)
Released(active, cost) == Max(0, active - cost)

(* The history kept of the concurrent limiter:                             *)
(*   before            activeRequests before the last call                 *)
(*   phase, k, further "counting" after a release(k) on a full limiter,    *)
(*                     with the cost-1 requests admitted since, and        *)
(*                     "rejected" once one of them was rejected            *)
(*   runStart, runUnits  activeRequests before the current run of          *)
(*                     consecutive release calls, and the units released   *)
(*                     in it                                               *)
NoConcurrentHistory ==
  [before |-> 0, phase |-> "none", k |-> 0, further |-> 0,
   runStart |-> 0, runUnits |-> 0]

ConcurrentAllowRequest(cost) ==
  LET out == ConcurrentAllow(cr, cost)
  IN  /\ cr' = out.state
      /\ result' = out.result
      /\ crh' = [crh EXCEPT
                   !.before = cr.activeRequests,
                   !.phase = IF crh.phase = "counting" /\ cost = 1
                             THEN (IF out.result.allowed THEN "counting"
                                                         ELSE "rejected")
                             ELSE "none",
                   !.further = IF crh.phase = "counting" /\ cost = 1
                                  /\ out.result.allowed
                               THEN @ + 1 ELSE @,
                   !.runStart = 0, !.runUnits = 0]
      /\ UNCHANGED <<now, admittedAt>>

ConcurrentRelease(cost) ==
  /\ result.op = "release" => crh.runUnits + cost <= MaxRunUnits
  /\ cr' = [cr EXCEPT !.activeRequests = Released(cr.activeRequests, cost)]
  /\ result' = [NoDecision EXCEPT !.op = "release", !.cost = cost]
  /\ crh' = [before |-> cr.activeRequests,
             phase |-> IF cr.activeRequests = cr.maxConcurrent
                       THEN "counting" ELSE "none",
             k |-> cost, further |-> 0,
             runStart |-> IF result.op = "release" THEN crh.runStart
                                                   ELSE cr.activeRequests,
             runUnits |-> IF result.op = "release" THEN crh.runUnits + cost
                                                   ELSE cost]
  /\ UNCHANGED <<now, admittedAt>>

ConcurrentReset ==
  /\ cr' = [cr EXCEPT !.activeRequests = 0]
  /\ result' = [NoDecision EXCEPT !.op = "reset"]
  /\ crh' = [NoConcurrentHistory EXCEPT !.before = cr.activeRequests]
  /\ UNCHANGED <<now, admittedAt>>

ConcurrentGetActiveCount ==
  /\ result' = [NoDecision EXCEPT !.op = "getActiveCount"]
  /\ UNCHANGED <<now, admittedAt, cr, crh>>

----------------------------------------------------------------------------
(* FixedWindowLimiter, alone and as a member of a MultiTierLimiter. *)

(* Math.floor(Date.now() / windowSize) * windowSize *)
GetCurrentWindow(windowSize, t) == Floor(t, windowSize) * windowSize

FixedWindowNew(windowSize, limit, t) ==
  [windowSize |-> windowSize, limit |-> limit,
   windowStart |-> GetCurrentWindow(windowSize, t), count |-> 0]

(* Mutant: the new window is adopted and the count is kept. *)
FixedWindowRollKeepsCount(f, t) ==
  [f EXCEPT !.windowStart = GetCurrentWindow(f.windowSize, t)]

(* Reset if in new window *)
FixedWindowRoll(f, t) ==
  IF GetCurrentWindow(f.windowSize, t) # f.windowStart
  THEN [f EXCEPT !.windowStart = GetCurrentWindow(f.windowSize, t), !.count = 0]
  ELSE f

(* Mutant: the admission test without the cost. *)
FixedWindowAdmitsAnyRoom(f, cost) == f.count < f.limit

(* Mutant: the admission test with < for <=. *)
FixedWindowAdmitsStrict(f, cost) == f.count + cost < f.limit

FixedWindowAdmits(f, cost) == f.count + cost <= f.limit

FixedWindowAllow(f, t, cost) ==
  LET r == FixedWindowRoll(f, t)
      a == [r EXCEPT !.count = @ + cost]
  IN  IF FixedWindowAdmits(r, cost)
      THEN [state |-> a,
            result |-> Decision("allow", cost, TRUE, f.limit, f.limit - a.count,
                         Rat(r.windowStart + r.windowSize, 1), NoRat)]
      ELSE [state |-> r,
            result |-> Decision("allow", cost, FALSE, f.limit, 0,
                         Rat(r.windowStart + r.windowSize, 1),
                         Rat(r.windowStart + r.windowSize - t, MsPerSec))]

FixedWindowAllowRequest(cost) ==
  LET out == FixedWindowAllow(fw, now, cost)
  IN  /\ fw' = out.state
      /\ result' = out.result
      /\ UNCHANGED <<now, admittedAt>>

FixedWindowReset ==
  /\ fw' = [fw EXCEPT !.windowStart = GetCurrentWindow(fw.windowSize, now),
                      !.count = 0]
  /\ result' = [NoDecision EXCEPT !.op = "reset"]
  /\ UNCHANGED <<now, admittedAt>>

(* The history kept of the fixed window's calls, for the aligned window of *)
(* the last call (cur) and for the window of the calls before it (prev):   *)
(*   window    the start of the aligned window, -1 when there is none       *)
(*   idx       the allowRequest calls made in it, counted up to limit + 1  *)
(*   admitted  those of them that were admitted, counted up to limit + 1   *)
(*   clean     every one of them had cost 1, and no reset fell in it       *)
(*   at        the time of the calls, -2 once they were at different times *)
(*   first     the last call was the first one in its window               *)
(* and, where the admitted cost is followed:                               *)
(*   total[t]  the cost admitted at time t                                 *)
(*   since[t]  the cost admitted at time t since the last reset            *)
(*   resets    the resets made                                             *)
NoWindowCalls ==
  [window |-> -1, idx |-> 0, admitted |-> 0, clean |-> TRUE, at |-> -1,
   first |-> FALSE]

NoFixedWindowHistory ==
  [cur |-> NoWindowCalls, prev |-> NoWindowCalls, total |-> NoHistory,
   since |-> NoHistory, resets |-> 0]

FixedWindowObserve(cost) ==
  LET w == GetCurrentWindow(fw.windowSize, now)
      allowed == FixedWindowAllow(fw, now, cost).result.allowed
      c == fwh.cur
  IN  fwh' =
        IF c.window = w
        THEN [fwh EXCEPT !.cur =
               [window |-> w,
                idx |-> Min(c.idx + 1, fw.limit + 1),
                admitted |-> IF allowed THEN Min(c.admitted + 1, fw.limit + 1)
                                        ELSE c.admitted,
                clean |-> c.clean /\ cost = 1,
                at |-> IF c.at = now THEN now ELSE -2,
                first |-> FALSE]]
        ELSE [fwh EXCEPT !.prev = c,
                         !.cur = [window |-> w, idx |-> 1,
                                  admitted |-> IF allowed THEN 1 ELSE 0,
                                  clean |-> cost = 1, at |-> now,
                                  first |-> TRUE]]

FixedWindowObserveReset ==
  LET w == GetCurrentWindow(fw.windowSize, now)
  IN  fwh' = IF fwh.cur.window = w THEN [fwh EXCEPT !.cur.clean = FALSE]
                                   ELSE fwh

FixedWindowObserveAdmitted(cost) ==
  LET allowed == FixedWindowAllow(fw, now, cost).result.allowed
  IN  fwh' = IF allowed
             THEN [fwh EXCEPT !.total = Record(@, now, cost),
                              !.since = Record(@, now, cost)]
             ELSE fwh

FixedWindowObserveAdmittedReset ==
  fwh' = [fwh EXCEPT !.since = NoHistory, !.resets = @ + 1]

----------------------------------------------------------------------------
(* SlidingWindowCounterLimiter.  The weighted count of the previous window *)
(* is previous.count * (windowSize - elapsed) / windowSize, kept exact.    *)

SlidingWindowCounterNew(windowSize, limit) ==
  [windowSize |-> windowSize, limit |-> limit,
   currentWindow |-> [start |-> 0, count |-> 0],
   previousWindow |-> [start |-> 0, count |-> 0]]

(* Math.floor(timestamp / windowSize) * windowSize *)
GetWindowStart(windowSize, t) == Floor(t, windowSize) * windowSize

(* Mutant: the windows are never moved. *)
SlidingWindowCounterStay(s, t) == s

(* Move to new window if needed *)
SlidingWindowCounterRoll(s, t) ==
  IF GetWindowStart(s.windowSize, t) # s.currentWindow.start
  THEN [s EXCEPT !.previousWindow = s.currentWindow,
                 !.currentWindow = [start |-> GetWindowStart(s.windowSize, t),
                                    count |-> 0]]
  ELSE s

(* Mutant: the estimate without the previous window. *)
EstimateCountCurrentOnly(s, t) == s.currentWindow.count

(* Math.floor(previousWindow.count * overlapPercent) + currentWindow.count *)
(* with overlapPercent = Math.max(0, (windowSize - elapsed) / windowSize)  *)
EstimateCount(s, t) ==
  Floor(s.previousWindow.count
          * Max(0, s.windowSize - (t - s.currentWindow.start)),
        s.windowSize) + s.currentWindow.count

SlidingWindowCounterAdmits(s, t, cost) == EstimateCount(s, t) + cost <= s.limit

SlidingWindowCounterAllow(s, t, cost) ==
  LET r == SlidingWindowCounterRoll(s, t)
      estimatedCount == EstimateCount(r, t)
      a == [r EXCEPT !.currentWindow.count = @ + cost]
      resetAt == r.currentWindow.start + r.windowSize
  IN  IF SlidingWindowCounterAdmits(r, t, cost)
      THEN [state |-> a,
            result |-> Decision("allow", cost, TRUE, s.limit,
                         Max(0, s.limit - estimatedCount - cost),
                         Rat(resetAt, 1), NoRat)]
      ELSE [state |-> r,
            result |-> Decision("allow", cost, FALSE, s.limit, 0,
                         Rat(resetAt, 1), Rat(resetAt - t, MsPerSec))]

SlidingWindowCounterAllowRequest(cost) ==
  LET out == SlidingWindowCounterAllow(swc, now, cost)
  IN  /\ swc' = out.state
      /\ result' = out.result
      /\ UNCHANGED <<now, admittedAt>>

SlidingWindowCounterReset ==
  /\ swc' = [swc EXCEPT
               !.currentWindow = [start |-> GetWindowStart(swc.windowSize, now),
                                  count |-> 0],
               !.previousWindow = [start |-> 0, count |-> 0]]
  /\ result' = [NoDecision EXCEPT !.op = "reset"]
  /\ UNCHANGED <<now, admittedAt>>

(* getCurrentCount returns estimateCount(Date.now()) and assigns nothing *)
SlidingWindowCounterGetCurrentCount ==
  /\ result' = [NoDecision EXCEPT !.op = "getCurrentCount"]
  /\ UNCHANGED <<now, admittedAt, swc>>

(* The history kept of the sliding-window counter's calls:                 *)
(*   sc       the run of cost-1 calls on a new limiter: phase "w1" while   *)
(*            all of them lie in one window w1 (n1 calls, a1 admitted, n1  *)
(*            counted up to limit + 1), phase "w2" once window w1 has had  *)
(*            more than limit calls and every later call lies at the one   *)
(*            time at2 = w1 + windowSize + windowSize / 2 (n2 calls, a2    *)
(*            admitted), "off" after anything else                         *)
(*   prev, prevTime  the result that stood before the last allowRequest,   *)
(*            and the time of the call that produced it                    *)
(*   time     the time of the last call                                    *)
(*   traffic  the schedule of uniformly spaced arrivals: burst calls every *)
(*            interval ms, the next ones due at due, k of them made        *)
(*   hist     hist[t] = calls admitted at time t, under that schedule      *)
(*   wt       the window transition: phase "fill" while the last n calls   *)
(*            were cost-1 calls admitted at the one time t, "mid" once n = *)
(*            limit and the next call was a cost-1 call at t +             *)
(*            windowSize / 2 (mid: it was admitted), "last" once the call  *)
(*            after that was a cost-1 call at t + 1.1 * windowSize (last:  *)
(*            it was admitted), "off" after anything else                  *)
(*   rolls    the moves to a new window since construction or the last     *)
(*            reset, counted up to 2, and gap: one of them skipped a       *)
(*            window                                                       *)
NoScenario ==
  [phase |-> "off", w1 |-> -1, n1 |-> 0, a1 |-> 0, at2 |-> -1, n2 |-> 0,
   a2 |-> 0]

NoTraffic == [interval |-> 0, burst |-> 0, due |-> -1, k |-> 0]

NoTransition ==
  [phase |-> "off", t |-> -1, n |-> 0, mid |-> FALSE, last |-> FALSE]

NoSlidingWindowCounterHistory ==
  [sc |-> [NoScenario EXCEPT !.phase = "fresh"], prev |-> NoDecision,
   prevTime |-> -1, time |-> -1, traffic |-> NoTraffic, hist |-> NoHistory,
   wt |-> NoTransition, rolls |-> 0, gap |-> FALSE]

ScenarioAfter(sc, cost, allowed) ==
  LET w == GetWindowStart(swc.windowSize, now)
      one == IF allowed THEN 1 ELSE 0
  IN  IF cost # 1 THEN NoScenario
      ELSE IF sc.phase = "fresh"
      THEN [NoScenario EXCEPT !.phase = "w1", !.w1 = w, !.n1 = 1, !.a1 = one]
      ELSE IF sc.phase = "w1" /\ w = sc.w1
      THEN [sc EXCEPT !.n1 = Min(@ + 1, swc.limit + 1), !.a1 = @ + one]
      ELSE IF /\ sc.phase = "w1"
              /\ sc.n1 > swc.limit
              /\ w = sc.w1 + swc.windowSize
              /\ 2 * (now - w) = swc.windowSize
      THEN [sc EXCEPT !.phase = "w2", !.at2 = now, !.n2 = 1, !.a2 = one]
      ELSE IF sc.phase = "w2" /\ now = sc.at2
      THEN [sc EXCEPT !.n2 = Min(@ + 1, swc.limit + 1), !.a2 = @ + one]
      ELSE NoScenario

SlidingWindowCounterObserved(cost) ==
  LET allowed == SlidingWindowCounterAllow(swc, now, cost).result.allowed
      w == GetWindowStart(swc.windowSize, now)
      rolled == w # swc.currentWindow.start
  IN  [swch EXCEPT !.sc = ScenarioAfter(swch.sc, cost, allowed),
                   !.prev = result, !.prevTime = swch.time, !.time = now,
                   !.rolls = IF rolled THEN Min(@ + 1, 2) ELSE @,
                   !.gap = @ \/ (rolled /\ swch.rolls > 0
                                  /\ w > swc.currentWindow.start + swc.windowSize)]

SlidingWindowCounterObserve(cost) == swch' = SlidingWindowCounterObserved(cost)

SlidingWindowCounterObserveReset ==
  swch' = [swch EXCEPT !.sc = NoScenario, !.time = now, !.rolls = 0,
                       !.gap = FALSE]

TransitionAfter(wt, cost, allowed) ==
  IF /\ cost = 1 /\ wt.phase = "fill" /\ wt.n = swc.limit
     /\ 2 * (now - wt.t) = swc.windowSize
  THEN [wt EXCEPT !.phase = "mid", !.mid = allowed]
  ELSE IF /\ cost = 1 /\ wt.phase = "mid"
          /\ 10 * (now - wt.t) = 11 * swc.windowSize
  THEN [wt EXCEPT !.phase = "last", !.last = allowed]
  ELSE IF cost = 1 /\ allowed /\ wt.phase = "fill" /\ wt.t = now
  THEN [wt EXCEPT !.n = @ + 1]
  ELSE IF cost = 1 /\ allowed
  THEN [NoTransition EXCEPT !.phase = "fill", !.t = now, !.n = 1]
  ELSE NoTransition

SlidingWindowCounterObserveTransition(cost) ==
  LET allowed == SlidingWindowCounterAllow(swc, now, cost).result.allowed
  IN  swch' = [swch EXCEPT !.wt = TransitionAfter(swch.wt, cost, allowed)]

SlidingWindowCounterObserveTransitionReset ==
  swch' = [swch EXCEPT !.wt = NoTransition]

----------------------------------------------------------------------------
(* MultiTierLimiter over FixedWindowLimiter members.  One allowRequest is  *)
(* one step: the caller awaits each call before the next.                  *)

(* for (const limiter of this.limiters): the members from i on, given the  *)
(* states so far and the results collected so far.  The first rejection    *)
(* returns; the members after it are not called.                           *)
RECURSIVE TierLoop(_, _, _, _, _)
TierLoop(limiters, i, t, cost, results) ==
  IF i > Len(limiters)
  THEN [limiters |-> limiters, results |-> results, rejected |-> FALSE]
  ELSE LET out == FixedWindowAllow(limiters[i], t, cost)
           ls == [limiters EXCEPT ![i] = out.state]
           rs == Append(results, out.result)
       IN  IF ~out.result.allowed
           THEN [limiters |-> ls, results |-> rs, rejected |-> TRUE]
           ELSE TierLoop(ls, i + 1, t, cost, rs)

(* Mutant: the reduce with <= for <. *)
RECURSIVE MostRestrictiveLatest(_, _, _)
MostRestrictiveLatest(results, i, most) ==
  IF i > Len(results) THEN most
  ELSE MostRestrictiveLatest(results, i + 1,
         IF results[i].remaining <= most.remaining THEN results[i] ELSE most)

(* results.reduce((most, current) =>                                       *)
(*   current.remaining < most.remaining ? current : most)                  *)
RECURSIVE MostRestrictive(_, _, _)
MostRestrictive(results, i, most) ==
  IF i > Len(results) THEN most
  ELSE MostRestrictive(results, i + 1,
         IF results[i].remaining < most.remaining THEN results[i] ELSE most)

(* reduce of an empty array with no initial value throws a TypeError *)
Thrown(cost) == [NoDecision EXCEPT !.op = "throw", !.cost = cost]

(* Mutant: on a rejection, the first member's result is returned. *)
MultiTierReturnFirst(results, rejected, cost) ==
  IF rejected THEN results[1]
  ELSE IF Len(results) = 0 THEN Thrown(cost)
  ELSE MostRestrictive(results, 2, results[1])

MultiTierReturn(results, rejected, cost) ==
  IF rejected THEN results[Len(results)]
  ELSE IF Len(results) = 0 THEN Thrown(cost)
  ELSE MostRestrictive(results, 2, results[1])

(* Mutant: a rejection gives the members back what the call took. *)
MultiTierAllowAtomic(limiters, t, cost) ==
  LET loop == TierLoop(limiters, 1, t, cost, <<>>)
  IN  [limiters |-> IF loop.rejected THEN limiters ELSE loop.limiters,
       result |-> MultiTierReturn(loop.results, loop.rejected, cost)]

MultiTierAllow(limiters, t, cost) ==
  LET loop == TierLoop(limiters, 1, t, cost, <<>>)
  IN  [limiters |-> loop.limiters,
       result |-> MultiTierReturn(loop.results, loop.rejected, cost)]

MultiTierNew(limiters) == [limiters |-> limiters, alone |-> limiters]

(* The history kept of the multi-tier calls: the members as they were      *)
(* before the last call, its time, and what each stand-alone copy answered.*)
(* skipped: an earlier call was rejected before it reached the last member.*)
NoMultiTierHistory ==
  [before |-> <<>>, time |-> 0, alone |-> <<>>, skipped |-> FALSE,
   skippedBefore |-> FALSE]

MultiTierAllowRequest(cost) ==
  LET out == MultiTierAllow(mt.limiters, now, cost)
      solo == [i \in 1..Len(mt.alone) |-> FixedWindowAllow(mt.alone[i], now, cost)]
  IN  /\ mt' = [limiters |-> out.limiters,
                alone |-> [i \in 1..Len(mt.alone) |-> solo[i].state]]
      /\ result' = out.result
      /\ mth' = [before |-> mt.limiters, time |-> now,
                 alone |-> [i \in 1..Len(mt.alone) |-> solo[i].result.allowed],
                 skipped |-> mth.skipped
                             \/ \E i \in 1..Len(mt.limiters) :
                                  out.limiters[i] # solo[i].state,
                 skippedBefore |-> mth.skipped]
      /\ UNCHANGED <<now, admittedAt>>

----------------------------------------------------------------------------
(* The shared store and its callers.  A key is <<prefix, identifier,       *)
(* windowStart>>; an entry is a value and the time it expires (NoExpiry    *)
(* when it has no TTL).  Every caller uses the one identifier.             *)

Callers == 1..NumCallers

Identifier == "default"

NoExpiry == -1

Key(prefix, w) == <<prefix, Identifier, w>>

EmptyStore == [k \in {} |-> 0]

Entry(value, expires) == [value |-> value, expires |-> expires]

Put(st, k, e) == [x \in DOMAIN st \cup {k} |-> IF x = k THEN e ELSE st[x]]

Remove(st, k) == [x \in DOMAIN st \ {k} |-> st[x]]

SharedNew(windowSize, limit) == [windowSize |-> windowSize, limit |-> limit]

(* Math.floor(now / windowSize) * windowSize *)
WindowStart(t) == Floor(t, shared.windowSize) * shared.windowSize

IdleCaller ==
  [pc |-> "idle", cost |-> 0, now |-> 0, windowStart |-> 0,
   currentCount |-> 0, previousCount |-> 0, read |-> 0]

NoWindowHistory ==
  [w \in Times |-> [issued |-> 0, done |-> 0, admitted |-> 0,
                    admittedCost |-> 0, unit |-> TRUE, overlapped |-> FALSE,
                    failed |-> 0, failedCost |-> 0]]

RECURSIVE IssuedUpTo(_)
IssuedUpTo(t) == IF t < 0 THEN 0 ELSE wh[t].issued + IssuedUpTo(t - 1)

(* A call is issued: it reads the clock and names its window. *)
Issued(p, cost) ==
  LET w == WindowStart(now)
  IN  /\ callers[p].pc = "idle"
      /\ IssuedUpTo(MaxTime) < MaxCalls
      /\ wh' = [wh EXCEPT ![w].issued = @ + 1,
                          ![w].unit = @ /\ cost = 1,
                          ![w].overlapped =
                             @ \/ \E q \in Callers \ {p} :
                                    /\ callers[q].pc # "idle"
                                    /\ callers[q].windowStart = w]

(* A call returns its result. *)
Returned(p, allowed) ==
  LET w == callers[p].windowStart
      c == callers[p].cost
  IN  wh' = [wh EXCEPT ![w].done = @ + 1,
                       ![w].admitted = IF allowed THEN @ + 1 ELSE @,
                       ![w].admittedCost = IF allowed THEN @ + c ELSE @]

----------------------------------------------------------------------------
(* The Redis server: every command is one step, and so is a script. *)

(* A key that exists and has not expired at server time t. *)
Live(st, k, t) ==
  /\ k \in DOMAIN st
  /\ st[k].expires = NoExpiry \/ t < st[k].expires

(* GET: the value, or 0 for nil *)
RedisGet(st, k, t) == IF Live(st, k, t) THEN st[k].value ELSE 0

(* Mutant: INCR for INCRBY. *)
RedisIncr(st, k, amount, t) ==
  IF Live(st, k, t)
  THEN Put(st, k, Entry(st[k].value + 1, st[k].expires))
  ELSE Put(st, k, Entry(1, NoExpiry))

(* INCRBY: a missing key counts from 0 and gets no TTL *)
RedisIncrBy(st, k, amount, t) ==
  IF Live(st, k, t)
  THEN Put(st, k, Entry(st[k].value + amount, st[k].expires))
  ELSE Put(st, k, Entry(amount, NoExpiry))

(* EXPIRE key seconds: nothing on a missing key *)
RedisExpire(st, k, ttlMs, t) ==
  IF Live(st, k, t) THEN Put(st, k, Entry(st[k].value, t + ttlMs)) ELSE st

----------------------------------------------------------------------------
(* RedisFixedWindowCounter.consume: GET, then the test in the client, then *)
(* INCRBY, then EXPIRE, each awaited.                                      *)

FixedWindowKey(w) == Key("fixed_window", w)

(* const now = Date.now() / 1000; windowStart; key; client.get(key) sent *)
RedisFixedWindowConsume(p, cost) ==
  /\ Issued(p, cost)
  /\ callers' = [callers EXCEPT ![p] =
       [IdleCaller EXCEPT !.pc = "get", !.cost = cost, !.now = now,
                          !.windowStart = WindowStart(now)]]
  /\ UNCHANGED <<now, result, admittedAt, shared, store>>

RedisFixedWindowAdmits(currentCount, cost) == currentCount + cost <= shared.limit

(* the GET answers: currentCount; if (currentCount + tokens <= limit) the  *)
(* INCRBY is sent, otherwise the rejection is returned                     *)
RedisFixedWindowGet(p) ==
  LET c == callers[p]
      currentCount == RedisGet(store, FixedWindowKey(c.windowStart), now)
  IN  /\ c.pc = "get"
      /\ IF RedisFixedWindowAdmits(currentCount, c.cost)
         THEN /\ callers' = [callers EXCEPT ![p].pc = "incr",
                                            ![p].currentCount = currentCount]
              /\ UNCHANGED <<result, wh>>
         ELSE /\ callers' = [callers EXCEPT ![p] = IdleCaller]
              /\ result' = Decision("allow", c.cost, FALSE, shared.limit, 0,
                             Rat(c.windowStart + shared.windowSize, 1), NoRat)
              /\ Returned(p, FALSE)
      /\ UNCHANGED <<now, admittedAt, shared, store>>

(* the INCRBY runs: newCount; the EXPIRE is sent *)
RedisFixedWindowIncr(p) ==
  LET c == callers[p]
      k == FixedWindowKey(c.windowStart)
      st == RedisIncrBy(store, k, c.cost, now)
  IN  /\ c.pc = "incr"
      /\ store' = st
      /\ callers' = [callers EXCEPT ![p].pc = "expire", ![p].read = st[k].value]
      /\ UNCHANGED <<now, result, admittedAt, shared, wh>>

(* the EXPIRE runs; the admission is returned *)
RedisFixedWindowExpire(p) ==
  LET c == callers[p]
      k == FixedWindowKey(c.windowStart)
  IN  /\ c.pc = "expire"
      /\ store' = RedisExpire(store, k, 2 * shared.windowSize, now)
      /\ callers' = [callers EXCEPT ![p] = IdleCaller]
      /\ result' = Decision("allow", c.cost, TRUE, shared.limit,
                     shared.limit - c.read,
                     Rat(c.windowStart + shared.windowSize, 1), NoRat)
      /\ Returned(p, TRUE)
      /\ UNCHANGED <<now, admittedAt, shared>>

(* The command a consume() awaits is rejected by the client (connection    *)
(* refused, timeout) without reaching the server: the await throws, and    *)
(* consume, which has no try/catch, rejects.  counted tells whether the    *)
(* call's INCRBY had run.                                                  *)
Failed(p, counted) ==
  LET w == callers[p].windowStart
      c == callers[p].cost
  IN  wh' = [wh EXCEPT ![w].done = @ + 1,
                       ![w].failed = @ + 1,
                       ![w].failedCost = IF counted THEN @ + c ELSE @]

RedisFixedWindowFail(p) ==
  LET c == callers[p]
  IN  /\ c.pc \in {"get", "incr", "expire"}
      /\ callers' = [callers EXCEPT ![p] = IdleCaller]
      /\ result' = [NoDecision EXCEPT !.op = "error", !.cost = c.cost]
      /\ Failed(p, c.pc = "expire")
      /\ UNCHANGED <<now, admittedAt, shared, store>>

----------------------------------------------------------------------------
(* RedisSlidingWindowCounter.consume: one script, run by the server as one *)
(* step, on the clock reading and the keys the client sent.                *)

SlidingWindowKey(w) == Key("sliding_window", w)

(* math.floor(previous * overlap_pct) + current, with overlap_pct =        *)
(* (window_size - elapsed) / window_size and elapsed = now - window_start  *)
ScriptEstimate(previous, current, t, w) ==
  Floor(previous * (shared.windowSize - (t - w)), shared.windowSize) + current

(* Mutant: the script's test with < for <=. *)
ScriptAdmitsStrict(estimated, cost) == estimated + cost < shared.limit

ScriptAdmits(estimated, cost) == estimated + cost <= shared.limit

(* const now = Date.now() / 1000; windowStart; keys; client.eval sent *)
RedisSlidingWindowConsume(p, cost) ==
  /\ Issued(p, cost)
  /\ callers' = [callers EXCEPT ![p] =
       [IdleCaller EXCEPT !.pc = "eval", !.cost = cost, !.now = now,
                          !.windowStart = WindowStart(now)]]
  /\ UNCHANGED <<now, result, admittedAt, shared, store>>

(* SCRIPT runs; consume returns {allowed, Math.max(0, remaining), resetAt} *)
RedisSlidingWindowEval(p) ==
  LET c == callers[p]
      currentKey == SlidingWindowKey(c.windowStart)
      previousKey == SlidingWindowKey(c.windowStart - shared.windowSize)
      current == RedisGet(store, currentKey, now)
      previous == RedisGet(store, previousKey, now)
      estimated == ScriptEstimate(previous, current, c.now, c.windowStart)
      allowed == ScriptAdmits(estimated, c.cost)
      remaining == IF allowed THEN shared.limit - estimated - c.cost ELSE 0
  IN  /\ c.pc = "eval"
      /\ store' = IF allowed
                  THEN RedisExpire(RedisIncrBy(store, currentKey, c.cost, now),
                                   currentKey, 2 * shared.windowSize, now)
                  ELSE store
      /\ callers' = [callers EXCEPT ![p] = IdleCaller]
      /\ result' = Decision("allow", c.cost, allowed, shared.limit,
                     Max(0, remaining),
                     Rat(c.windowStart + shared.windowSize, 1), NoRat)
      /\ Returned(p, allowed)
      /\ UNCHANGED <<now, admittedAt, shared>>

----------------------------------------------------------------------------
(* MemoryStorage: the Map, read and written in the synchronous part of     *)
(* get and set.                                                            *)

(* get: an expired item is deleted and null is returned *)
MemoryExpired(st, k, t) ==
  /\ k \in DOMAIN st
  /\ st[k].expires # NoExpiry
  /\ st[k].expires < t

MemoryGetStore(st, k, t) == IF MemoryExpired(st, k, t) THEN Remove(st, k) ELSE st

(* Number(v) || 0 of what get returns *)
MemoryGetValue(st, k, t) ==
  IF k \in DOMAIN st /\ ~MemoryExpired(st, k, t) THEN st[k].value ELSE 0

(* set(key, value, ttl): expires = ttl ? Date.now() + ttl * 1000 : undefined *)
MemorySet(st, k, value, ttlMs, t) ==
  Put(st, k, Entry(value, IF Truthy(ttlMs) THEN t + ttlMs ELSE NoExpiry))

----------------------------------------------------------------------------
(* DistributedSlidingWindowCounter.allowRequest over a MemoryStorage.  The *)
(* call runs to its next await in one step.                                *)

DistributedKey(w) == Key("rate_limit", w)

(* now, the keys, and both storage.get calls; await Promise.all *)
DistributedAllowRequest(p, cost) ==
  LET w == WindowStart(now)
      currentKey == DistributedKey(w)
      previousKey == DistributedKey(w - shared.windowSize)
      st1 == MemoryGetStore(store, currentKey, now)
      st2 == MemoryGetStore(st1, previousKey, now)
  IN  /\ Issued(p, cost)
      /\ store' = st2
      /\ callers' = [callers EXCEPT ![p] =
           [IdleCaller EXCEPT !.pc = "decide", !.cost = cost, !.now = now,
              !.windowStart = w,
              !.currentCount = MemoryGetValue(store, currentKey, now),
              !.previousCount = MemoryGetValue(st1, previousKey, now)]]
      /\ UNCHANGED <<now, result, admittedAt, shared>>

(* Math.floor(previousCount * overlapPercent) + currentCount *)
DistributedEstimate(c) ==
  Floor(c.previousCount
          * Max(0, shared.windowSize - (c.now - c.windowStart)),
        shared.windowSize) + c.currentCount

DistributedAdmits(c) == DistributedEstimate(c) + c.cost <= shared.limit

(* the estimate and the test; on admission storage.increment is called and *)
(* runs to its await of get; otherwise the rejection is returned           *)
DistributedDecide(p) ==
  LET c == callers[p]
      k == DistributedKey(c.windowStart)
  IN  /\ c.pc = "decide"
      /\ IF DistributedAdmits(c)
         THEN /\ store' = MemoryGetStore(store, k, now)
              /\ callers' = [callers EXCEPT ![p].pc = "increment",
                               ![p].read = MemoryGetValue(store, k, now)]
              /\ UNCHANGED <<result, wh>>
         ELSE /\ callers' = [callers EXCEPT ![p] = IdleCaller]
              /\ result' = Decision("allow", c.cost, FALSE, shared.limit, 0,
                             Rat(c.windowStart + shared.windowSize, 1),
                             Rat(c.windowStart + shared.windowSize - c.now, MsPerSec))
              /\ UNCHANGED store
              /\ Returned(p, FALSE)
      /\ UNCHANGED <<now, admittedAt, shared>>

(* increment resumes: newValue = current + amount; set(key, newValue) *)
DistributedIncrement(p) ==
  LET c == callers[p]
      k == DistributedKey(c.windowStart)
  IN  /\ c.pc = "increment"
      /\ store' = MemorySet(store, k, c.read + c.cost, 0, now)
      /\ callers' = [callers EXCEPT ![p].pc = "set"]
      /\ UNCHANGED <<now, result, admittedAt, shared, wh>>

(* storage.set(currentKey, currentCount + tokens, windowSize / 1000 * 2);  *)
(* the admission is returned                                               *)
DistributedSet(p) ==
  LET c == callers[p]
      k == DistributedKey(c.windowStart)
      estimated == DistributedEstimate(c)
  IN  /\ c.pc = "set"
      /\ store' = MemorySet(store, k, c.currentCount + c.cost,
                            2 * shared.windowSize, now)
      /\ callers' = [callers EXCEPT ![p] = IdleCaller]
      /\ result' = Decision("allow", c.cost, TRUE, shared.limit,
                     Max(0, shared.limit - estimated - c.cost),
                     Rat(c.windowStart + shared.windowSize, 1), NoRat)
      /\ Returned(p, TRUE)
      /\ UNCHANGED <<now, admittedAt, shared>>

(* reset(): the body is empty *)
DistributedReset ==
  /\ result' = [NoDecision EXCEPT !.op = "reset"]
  /\ UNCHANGED <<now, admittedAt, shared, store, callers, wh>>

----------------------------------------------------------------------------
(* rateLimit(config): the middleware and its RateLimiterStore.  The        *)
(* limiter of a key is any RateLimiter: its allowRequest returns a result  *)
(* that admits, returns one that rejects, or throws (its promise rejects). *)

Keys == {"a", "b"}

Outcomes == {"admit", "reject", "throw"}

TooManyRequests == 429

(* One request: where its handler stands, and what it has done to the      *)
(* response and to next.                                                   *)
NoRequest ==
  [pc |-> "idle", key |-> "", outcome |-> "none", nextCalls |-> 0,
   status |-> 0, handled |-> FALSE]

(* const store = new RateLimiterStore(config); handler tells whether       *)
(* config.handler is set                                                   *)
MiddlewareNew(handler) ==
  [limiters |-> {}, handler |-> handler, started |-> 0,
   requests |-> [p \in Callers |-> NoRequest]]

(* store.getLimiter(key): the keys that have a limiter afterwards *)
GetLimiter(limiters, key) == limiters \cup {key}

(* if (skip(req)) return next(); *)
MiddlewareSkip(p) ==
  /\ mw.requests[p].pc = "idle"
  /\ mw.started < MaxCalls
  /\ mw' = [mw EXCEPT !.started = @ + 1,
                      !.requests[p] = [NoRequest EXCEPT !.pc = "done",
                                                        !.outcome = "skip",
                                                        !.nextCalls = 1]]

(* key; store.getLimiter(key); limiter.allowRequest() is called and awaited *)
MiddlewareCall(p, key, outcome) ==
  /\ mw.requests[p].pc = "idle"
  /\ mw.started < MaxCalls
  /\ mw' = [mw EXCEPT !.started = @ + 1,
                      !.limiters = GetLimiter(@, key),
                      !.requests[p] = [NoRequest EXCEPT !.pc = "await",
                                                        !.key = key,
                                                        !.outcome = outcome]]

(* result.allowed: the headers are set and next() is called *)
Admitted(r) == [r EXCEPT !.pc = "done", !.nextCalls = @ + 1]

(* !result.allowed: config.handler if set, else res.status(429).json(...) *)
Rejected(r, handler) ==
  IF handler THEN [r EXCEPT !.pc = "done", !.handled = TRUE]
  ELSE [r EXCEPT !.pc = "done", !.status = TooManyRequests]

(* Mutant: a catch that answers 429. *)
FailClosed(r) == [r EXCEPT !.pc = "done", !.status = TooManyRequests]

(* catch (error) { console.error(...); next(); } *)
FailOpen(r) == [r EXCEPT !.pc = "done", !.nextCalls = @ + 1]

(* the await ends: the rest of the try block, or the catch *)
MiddlewareResume(p) ==
  LET r == mw.requests[p]
      after == CASE r.outcome = "admit" -> Admitted(r)
                 [] r.outcome = "reject" -> Rejected(r, mw.handler)
                 [] OTHER -> FailOpen(r)
  IN  /\ r.pc = "await"
      /\ mw' = [mw EXCEPT !.requests[p] = after]

(* the request is over; the next one of this client can come *)
MiddlewareFinish(p) ==
  /\ mw.requests[p].pc = "done"
  /\ mw' = [mw EXCEPT !.requests[p] = NoRequest]

----------------------------------------------------------------------------
(* Initial values of the limiters a specification does not exercise. *)

ClockInit ==
  /\ now = StartTime
  /\ result = NoDecision
  /\ admittedAt = NoHistory

TokenBucketIdle ==
  /\ tb = TokenBucketNew(0, 1000, StartTime)
  /\ tbh = TokenBucketHistoryNew(StartTime)
LeakyBucketIdle ==
  /\ lb = LeakyBucketNew(0, 1000, StartTime)
  /\ twin = TwinNew(LeakyBucketNew(0, 1000, StartTime))
  /\ lbh = LeakyBucketHistoryNew
FixedWindowIdle ==
  /\ fw = FixedWindowNew(1, 0, StartTime)
  /\ fwh = NoFixedWindowHistory
SlidingWindowLogIdle == swl = SlidingWindowLogNew(1, 0)
SlidingWindowCounterIdle ==
  /\ swc = SlidingWindowCounterNew(1, 0)
  /\ swch = NoSlidingWindowCounterHistory
ConcurrentIdle == cr = ConcurrentNew(0) /\ crh = NoConcurrentHistory
MultiTierIdle == mt = MultiTierNew(<<>>) /\ mth = NoMultiTierHistory
MiddlewareIdle == mw = MiddlewareNew(FALSE)
SharedIdle ==
  /\ shared = SharedNew(1, 0)
  /\ store = EmptyStore
  /\ callers = [p \in Callers |-> IdleCaller]
  /\ wh = NoWindowHistory

----------------------------------------------------------------------------
(* A token bucket of any capacity and rate under allowRequest, getTokens,  *)
(* reset and the clock.                                                    *)

InitTokenBucket ==
  /\ ClockInit /\ MiddlewareIdle
  /\ under = "TokenBucketLimiter"
  /\ \E c \in Capacities, r \in Rates : tb = TokenBucketNew(c, r, StartTime)
  /\ tbh = TokenBucketHistoryNew(StartTime)
  /\ LeakyBucketIdle /\ FixedWindowIdle /\ SlidingWindowLogIdle
  /\ SlidingWindowCounterIdle /\ ConcurrentIdle /\ MultiTierIdle
  /\ SharedIdle

SharedVars == <<shared, store, callers, wh>>

TokenBucketVars == <<tb, tbh>>
LeakyBucketVars == <<lb, twin, lbh>>
FixedWindowVars == <<fw, fwh>>
SlidingWindowCounterVars == <<swc, swch>>

NotTokenBucket ==
  <<under, mw, LeakyBucketVars, FixedWindowVars, swl, SlidingWindowCounterVars,
    cr, crh, mt, mth, SharedVars>>

NextTokenBucket ==
  \/ Tick /\ UNCHANGED <<result, admittedAt, TokenBucketVars, NotTokenBucket>>
  \/ (\E cost \in Costs : TokenBucketAllowRequest(cost) /\ TokenBucketObserve(cost))
       /\ UNCHANGED NotTokenBucket
  \/ TokenBucketGetTokens /\ TokenBucketObserveOther /\ UNCHANGED NotTokenBucket
  \/ TokenBucketReset /\ TokenBucketObserveOther /\ UNCHANGED NotTokenBucket

SpecTokenBucket == InitTokenBucket /\ [][NextTokenBucket]_vars

(* C1: with a non-decreasing clock and positive costs, after any sequence  *)
(* of allowRequest, getTokens and reset calls the token count satisfies    *)
(* 0 <= tokens <= capacity.                                                *)
C1_TokensWithinCapacity ==
  /\ 0 <= tb.tokens
  /\ tb.tokens <= tb.capacity * TokenScale

(* An admission that took a partly refilled bucket down to exactly 0.      *)
C1_Witness ==
  /\ result.op = "allow"
  /\ result.allowed
  /\ tb.capacity > 0
  /\ tb.tokens = 0
  /\ tb.lastRefill > StartTime

(* C13: a freshly constructed token bucket with integer capacity C > 0 and *)
(* a positive refill rate, called with cost 1 repeatedly with no time      *)
(* elapsing, admits exactly the first C calls with remaining C - 1, C - 2, *)
(* ..., 0 and rejects call C + 1 with remaining 0 and retryAfter > 0.      *)
C13_FreshBucketAdmitsCapacity ==
  tbh.fresh /\ result.op = "allow" /\ tb.capacity > 0 =>
    IF tbh.n <= tb.capacity
    THEN /\ result.allowed
         /\ result.remaining = tb.capacity - tbh.n
    ELSE /\ ~result.allowed
         /\ result.remaining = 0
         /\ result.retryAfter.present
         /\ result.retryAfter.num > 0

(* Call C + 1 on a fresh bucket of capacity C >= 2, rejected. *)
C13_Witness ==
  /\ tbh.fresh
  /\ result.op = "allow"
  /\ tb.capacity >= 2
  /\ tbh.n = tb.capacity + 1
  /\ tb.tokens = 0
  /\ ~result.allowed
  /\ result.retryAfter.num > 0

(* The tokens refilled in the e seconds before the run, whole. *)
RefilledBeforeRun ==
  Floor((tbh.runAt - tbh.zero) * tb.refillRate, MsPerSec)

RunCutByCapacity ==
  /\ tbh.run = tb.capacity + 1
  /\ result.op = "allow"
  /\ ~result.allowed
  /\ tb.capacity > 0
  /\ RefilledBeforeRun > tb.capacity

(* C28: a TokenBucketLimiter with capacity 0 rejects every allowRequest    *)
(* with positive cost, at every time and after any history of calls,       *)
(* however much time has elapsed for refill.                               *)
C28_ZeroCapacityRejects ==
  tb.capacity = 0 /\ result.op = "allow" =>
    /\ ~result.allowed
    /\ result.remaining = 0
    /\ tb.tokens = 0

(* A rejection by a bucket of capacity 0 whose previous call was made at   *)
(* an earlier time, so that the refill had time to add tokens.             *)
C28_Witness ==
  /\ tb.capacity = 0
  /\ result.op = "allow"
  /\ ~result.allowed
  /\ tbh.run = 1
  /\ tbh.zero > StartTime
  /\ (tbh.runAt - tbh.zero) * tb.refillRate >= MsPerSec

----------------------------------------------------------------------------
(* A leaky bucket of any capacity and rate under allowRequest,             *)
(* getQueueLength, reset and the clock.                                    *)

InitLeakyBucket ==
  /\ ClockInit /\ MiddlewareIdle
  /\ under = "LeakyBucketLimiter"
  /\ \E c \in Capacities, r \in Rates :
       /\ lb = LeakyBucketNew(c, r, StartTime)
       /\ twin = TwinNew(LeakyBucketNew(c, r, StartTime))
  /\ lbh = LeakyBucketHistoryNew
  /\ TokenBucketIdle /\ FixedWindowIdle /\ SlidingWindowLogIdle
  /\ SlidingWindowCounterIdle /\ ConcurrentIdle /\ MultiTierIdle
  /\ SharedIdle

NotLeakyBucket ==
  <<under, mw, TokenBucketVars, FixedWindowVars, swl, SlidingWindowCounterVars,
    cr, crh, mt, mth, SharedVars>>

NextLeakyBucket ==
  \/ Tick /\ UNCHANGED <<result, admittedAt, LeakyBucketVars, NotLeakyBucket>>
  \/ (\E cost \in Costs : LeakyBucketAllowRequest(cost) /\ TwinAllowRequest(cost))
       /\ UNCHANGED <<lbh, NotLeakyBucket>>
  \/ LeakyBucketGetQueueLength /\ UNCHANGED <<twin, lbh, NotLeakyBucket>>
  \/ LeakyBucketReset /\ TwinReset /\ UNCHANGED <<lbh, NotLeakyBucket>>

SpecLeakyBucket == InitLeakyBucket /\ [][NextLeakyBucket]_vars

(* C2: with a non-decreasing clock and positive costs, after any sequence  *)
(* of allowRequest, getQueueLength and reset calls the queue length        *)
(* satisfies 0 <= queueLength <= capacity.                                 *)
C2_QueueWithinCapacity ==
  /\ 0 <= Len(lb.queue)
  /\ Len(lb.queue) <= lb.capacity

(* A full queue that a rejected request found full, after a drain. *)
C2_Witness ==
  /\ result.op = "allow"
  /\ ~result.allowed
  /\ lb.capacity > 0
  /\ Len(lb.queue) = lb.capacity
  /\ lb.queue[1] > StartTime

(* C20: inserting accessor calls at any times into a call sequence never   *)
(* changes the Decision of any later allowRequest, compared with the same  *)
(* sequence without those accessor calls.  Here for getQueueLength: the    *)
(* twin is given the same sequence without it.                             *)
C20_AccessorsSideEffectFree ==
  result.op = "allow" => result = twin.result

(* The slots a call removes from the queue it finds: those queued before   *)
(* and those it admits, less those queued after.                           *)
AdmittedByCall ==
  IF result'.op = "allow" /\ result'.allowed THEN result'.cost ELSE 0

DrainedByCall == Len(lb.queue) + AdmittedByCall - Len(lb'.queue)

----------------------------------------------------------------------------
(* The same leaky bucket with the history of its calls, up to MaxLeakTime  *)
(* and with at most MaxResets calls of reset.                              *)

NextLeakyBucketHistory ==
  \/ /\ now < MaxLeakTime
     /\ Tick
     /\ UNCHANGED <<result, admittedAt, LeakyBucketVars, NotLeakyBucket>>
  \/ (\E cost \in Costs : /\ LeakyBucketAllowRequest(cost)
                          /\ LeakyBucketObserve(cost))
       /\ UNCHANGED <<twin, NotLeakyBucket>>
  \/ LeakyBucketGetQueueLength /\ UNCHANGED <<twin, lbh, NotLeakyBucket>>
  \/ /\ lbh.resets < MaxResets
     /\ LeakyBucketReset
     /\ LeakyBucketObserveReset
     /\ UNCHANGED <<twin, NotLeakyBucket>>

SpecLeakyBucketHistory == InitLeakyBucket /\ [][NextLeakyBucketHistory]_vars

(* The cost admitted at the times s..e is at most capacity + leakRate * T  *)
(* with T = (e - s) / 1000 seconds.                                        *)
RateCapped(hist) ==
  \A s \in Times : \A e \in Times :
    s <= e => AdmittedIn(hist, s, e) * MsPerSec
                <= lb.capacity * MsPerSec + lb.leakRate * (e - s)

(* C21: over any time span of length T seconds and any call sequence, the  *)
(* total cost a LeakyBucketLimiter admits is at most capacity +            *)
(* leakRate * T.                                                           *)
C21_RateCapped == RateCapped(lbh.total)

(* C21, amended: over any time span of length T seconds in which reset()   *)
(* is not called, and any sequence of allowRequest and getQueueLength      *)
(* calls, the total admitted cost is at most capacity + leakRate * T.      *)
C21_RateCappedBetweenResets == RateCapped(lbh.since)

(* A span of positive length, with no reset, in which the admitted cost is *)
(* exactly capacity + leakRate * T.                                        *)
C21_Witness ==
  /\ lbh.resets = 0
  /\ lb.capacity > 0
  /\ \E s \in Times : \E e \in Times :
       /\ s < e
       /\ lbh.since[e] > 0
       /\ AdmittedIn(lbh.since, s, e) * MsPerSec
            = lb.capacity * MsPerSec + lb.leakRate * (e - s)

----------------------------------------------------------------------------
(* A sliding-window log of any window and limit under allowRequest,        *)
(* getRequestCount and the clock.                                          *)

InitSlidingWindowLog ==
  /\ ClockInit /\ MiddlewareIdle
  /\ under = "SlidingWindowLogLimiter"
  /\ \E w \in WindowSizes, l \in Limits : swl = SlidingWindowLogNew(w, l)
  /\ TokenBucketIdle /\ LeakyBucketIdle /\ FixedWindowIdle
  /\ SlidingWindowCounterIdle /\ ConcurrentIdle /\ MultiTierIdle
  /\ SharedIdle

NotSlidingWindowLog ==
  <<under, mw, TokenBucketVars, LeakyBucketVars, FixedWindowVars,
    SlidingWindowCounterVars, cr, crh, mt, mth, SharedVars>>

NextSlidingWindowLog ==
  \/ Tick /\ UNCHANGED <<result, admittedAt, swl, NotSlidingWindowLog>>
  \/ (\E cost \in Costs : SlidingWindowLogAllowRequest(cost))
       /\ UNCHANGED NotSlidingWindowLog
  \/ SlidingWindowLogGetRequestCount /\ UNCHANGED NotSlidingWindowLog

SpecSlidingWindowLog == InitSlidingWindowLog /\ [][NextSlidingWindowLog]_vars

(* C3: for any window W and limit L and any sequence of allowRequest calls *)
(* with a non-decreasing clock, the total cost of the admitted requests    *)
(* whose admission times fall within any sliding interval (t - W, t] never *)
(* exceeds L.                                                              *)
C3_SlidingLogExact ==
  \A t \in Times :
    AdmittedIn(admittedAt, t - swl.windowSize + 1, t) <= swl.limit

(* An admission into a log from which an earlier admission has expired,    *)
(* filling the window that ends now.                                       *)
C3_Witness ==
  /\ result.op = "allow"
  /\ result.allowed
  /\ swl.limit > 0
  /\ AdmittedIn(admittedAt, now - swl.windowSize + 1, now) = swl.limit
  /\ AdmittedIn(admittedAt, 0, now - swl.windowSize) > 0

----------------------------------------------------------------------------
(* A concurrent-requests limiter of any maxConcurrent under allowRequest,  *)
(* release and reset.                                                      *)

InitConcurrent ==
  /\ ClockInit /\ MiddlewareIdle
  /\ under = "ConcurrentRequestsLimiter"
  /\ \E m \in 0..MaxConcurrent : cr = ConcurrentNew(m)
  /\ crh = NoConcurrentHistory
  /\ TokenBucketIdle /\ LeakyBucketIdle /\ FixedWindowIdle
  /\ SlidingWindowLogIdle /\ SlidingWindowCounterIdle /\ MultiTierIdle
  /\ SharedIdle

NotConcurrent ==
  <<under, mw, TokenBucketVars, LeakyBucketVars, FixedWindowVars, swl,
    SlidingWindowCounterVars, mt, mth, SharedVars>>

NextConcurrent ==
  \/ (\E cost \in Costs : ConcurrentAllowRequest(cost)) /\ UNCHANGED NotConcurrent
  \/ (\E cost \in Costs : ConcurrentRelease(cost)) /\ UNCHANGED NotConcurrent
  \/ ConcurrentReset /\ UNCHANGED NotConcurrent
  \/ ConcurrentGetActiveCount /\ UNCHANGED NotConcurrent

SpecConcurrent == InitConcurrent /\ [][NextConcurrent]_vars

(* allowRequest(cost) admits iff active + cost <= maxConcurrent and then   *)
(* raises active by exactly cost; active never exceeds maxConcurrent.      *)
ConcurrentAdmission ==
  /\ cr.activeRequests <= cr.maxConcurrent
  /\ result.op = "allow" =>
       /\ result.allowed <=> crh.before + result.cost <= cr.maxConcurrent
       /\ cr.activeRequests =
            IF result.allowed THEN crh.before + result.cost ELSE crh.before

(* C9, as stated: ConcurrentAdmission, and after the limiter is filled to  *)
(* maxConcurrent, release(k) lets exactly k further cost-1 requests in     *)
(* before the next one is rejected.                                        *)
C9_ReleaseLetsExactlyK ==
  /\ ConcurrentAdmission
  /\ crh.phase = "rejected" => crh.further = crh.k

(* C9, amended: ConcurrentAdmission, and after the limiter is filled to    *)
(* maxConcurrent, release(k) lets exactly min(k, maxConcurrent) further    *)
(* cost-1 requests in before the next one is rejected.                     *)
C9_ReleaseLetsMinKMax ==
  /\ ConcurrentAdmission
  /\ crh.phase = "rejected" => crh.further = Min(crh.k, cr.maxConcurrent)

(* A full limiter, release(2), two cost-1 admissions, then a rejection. *)
C9_Witness ==
  /\ crh.phase = "rejected"
  /\ crh.k = 2
  /\ crh.further = 2
  /\ cr.maxConcurrent > 2
  /\ ~result.allowed

(* C10: after any sequence of allowRequest, release and reset calls active *)
(* is never negative, and releasing more units than were admitted          *)
(* (release(cost) with cost >= active, or a run of release calls whose     *)
(* units reach the active count they started from) leaves active exactly 0.*)
C10_ReleaseClampsAtZero ==
  /\ cr.activeRequests >= 0
  /\ result.op = "release" /\ result.cost >= crh.before => cr.activeRequests = 0
  /\ result.op = "release" /\ crh.runUnits >= crh.runStart => cr.activeRequests = 0

(* Two release calls in a row that together release more than was active. *)
C10_Witness ==
  /\ result.op = "release"
  /\ crh.runStart > 0
  /\ crh.runUnits > crh.runStart
  /\ crh.runUnits > result.cost
  /\ result.cost > crh.before
  /\ cr.activeRequests = 0

----------------------------------------------------------------------------
(* A MultiTierLimiter over any list of up to MaxTiers fixed-window         *)
(* limiters, beside a stand-alone copy of every member that is given every *)
(* call.                                                                   *)

(* Window sizes of the members, in ms. *)
TierWindowSizes == {1, 3}

FixedWindowConfigs ==
  {FixedWindowNew(w, l, StartTime) : w \in TierWindowSizes, l \in 1..MaxLimit}

TierLists ==
  UNION {[1..n -> FixedWindowConfigs] : n \in 0..MaxTiers}

InitMultiTier ==
  /\ ClockInit /\ MiddlewareIdle
  /\ under = "MultiTierLimiter"
  /\ \E ls \in TierLists : mt = MultiTierNew(ls)
  /\ mth = NoMultiTierHistory
  /\ TokenBucketIdle /\ LeakyBucketIdle /\ FixedWindowIdle
  /\ SlidingWindowLogIdle /\ SlidingWindowCounterIdle /\ ConcurrentIdle
  /\ SharedIdle

NotMultiTier ==
  <<under, mw, TokenBucketVars, LeakyBucketVars, FixedWindowVars, swl,
    SlidingWindowCounterVars, cr, crh, SharedVars>>

NextMultiTier ==
  \/ Tick /\ UNCHANGED <<result, admittedAt, mt, mth, NotMultiTier>>
  \/ (\E cost \in Costs : MultiTierAllowRequest(cost)) /\ UNCHANGED NotMultiTier

SpecMultiTier == InitMultiTier /\ [][NextMultiTier]_vars

MultiTierCalled == result.op \in {"allow", "throw"}

(* C7, as stated: for MultiTierLimiter([A, B]) and independent copies of A *)
(* and of B given the same calls, at every call where the stand-alone A or *)
(* the stand-alone B rejects, the composite rejects too.                   *)
C7_Dominance ==
  MultiTierCalled /\ Len(mth.before) = 2 =>
    \A i \in 1..2 : ~mth.alone[i] => ~result.allowed

(* C7, amended: at every call where the stand-alone A rejects the          *)
(* composite rejects too, and so it does where the stand-alone B rejects   *)
(* as long as no earlier call was rejected by A (B inside the composite is *)
(* charged only for the calls that A admitted, so after such a call it     *)
(* can admit what the stand-alone B rejects).                              *)
C7_DominanceUntilSkipped ==
  MultiTierCalled /\ Len(mth.before) = 2 =>
    /\ ~mth.alone[1] => ~result.allowed
    /\ ~mth.alone[2] /\ ~mth.skippedBefore => ~result.allowed

(* A admits, the stand-alone B rejects, and the composite rejects with it. *)
C7_Witness ==
  /\ MultiTierCalled
  /\ Len(mth.before) = 2
  /\ mth.alone[1]
  /\ ~mth.alone[2]
  /\ ~mth.skippedBefore
  /\ ~result.allowed
  /\ mth.before[2].count > 0

(* Whether member i, as it was before the last call, admits its cost. *)
MemberAdmits(i) ==
  FixedWindowAllow(mth.before[i], mth.time, result.cost).result.allowed

(* C8: allowRequest(cost) evaluates the members in list order and returns  *)
(* allowed = true iff every member admits the cost against its own current *)
(* state; at the first rejecting member it stops, so the members after it  *)
(* are not called and keep their state.                                    *)
C8_AllowedIffAllAdmit ==
  MultiTierCalled =>
    /\ result.op = "allow"
    /\ result.allowed <=> \A i \in 1..Len(mth.before) : MemberAdmits(i)
    /\ \A i \in 1..Len(mth.before) :
         (\E j \in 1..(i - 1) : ~MemberAdmits(j)) => mt.limiters[i] = mth.before[i]

(* What holds of C8 on every list with at least one member. *)
MultiTierConjunctionOfMembers ==
  MultiTierCalled /\ Len(mth.before) > 0 => C8_AllowedIffAllAdmit

(* C25: every allowRequest call on a local limiter returns a Decision and  *)
(* never throws, for every configuration the constructor accepts and every *)
(* positive cost, including a MultiTierLimiter built from an empty list of *)
(* limiters.                                                               *)
C25_AlwaysDecision ==
  MultiTierCalled => result.op = "allow"

(* The Decision of member i, as it was before the last call, for its cost. *)
MemberDecision(i) ==
  FixedWindowAllow(mth.before[i], mth.time, result.cost).result

Members == 1..Len(mth.before)

Rejecting == {i \in Members : ~MemberDecision(i).allowed}

FirstOf(S) == CHOOSE i \in S : \A j \in S : i <= j

(* The members whose Decision has the smallest remaining. *)
Tightest ==
  {i \in Members :
     \A j \in Members : MemberDecision(i).remaining <= MemberDecision(j).remaining}

(* C26: MultiTierLimiter.allowRequest returns, on rejection, exactly the    *)
(* Decision of the first rejecting member (its limit, remaining, resetAt   *)
(* and retryAfter unchanged), and when all members admit, the member       *)
(* Decision with the smallest remaining (the earliest such member on       *)
(* ties); for a list of at least one member.                               *)
C26_ReturnsMemberDecision ==
  MultiTierCalled /\ Members # {} =>
    IF Rejecting # {}
    THEN result = MemberDecision(FirstOf(Rejecting))
    ELSE result = MemberDecision(FirstOf(Tightest))

(* Two members that admit with the same remaining and different Decisions: *)
(* the first one's is returned.                                            *)
C26_Witness ==
  /\ MultiTierCalled
  /\ Len(mth.before) = 2
  /\ Rejecting = {}
  /\ Tightest = {1, 2}
  /\ MemberDecision(1) # MemberDecision(2)
  /\ result = MemberDecision(1)

(* The second member rejects, and its Decision is returned. *)
FirstRejectionReturned ==
  /\ MultiTierCalled
  /\ Len(mth.before) = 2
  /\ Rejecting = {2}
  /\ result = MemberDecision(2)
  /\ result # MemberDecision(1)

----------------------------------------------------------------------------
(* Callers that share one store and one identifier.                        *)

Local ==
  <<under, mw, TokenBucketVars, LeakyBucketVars, FixedWindowVars, swl,
    SlidingWindowCounterVars, cr, crh, mt, mth>>

LocalIdle ==
  /\ TokenBucketIdle /\ LeakyBucketIdle /\ FixedWindowIdle
  /\ SlidingWindowLogIdle /\ SlidingWindowCounterIdle
  /\ ConcurrentIdle /\ MultiTierIdle

(* Window sizes of the shared counter, in ms. *)
SharedWindowSizes == {2, 3}

InitShared ==
  /\ ClockInit /\ MiddlewareIdle
  /\ under = "shared"
  /\ LocalIdle
  /\ \E w \in SharedWindowSizes, l \in 1..MaxLimit : shared = SharedNew(w, l)
  /\ store = EmptyStore
  /\ callers = [p \in Callers |-> IdleCaller]
  /\ wh = NoWindowHistory

SharedTick ==
  /\ now < MaxSharedTime
  /\ Tick
  /\ UNCHANGED <<result, admittedAt, SharedVars, Local>>

(* The window that starts at w lies before the clock leaves it, and no     *)
(* call was admitted in the window before it.                              *)
InWindow(w) == w = WindowStart(now)

PreviousEmpty(w) ==
  w - shared.windowSize \in Times => wh[w - shared.windowSize].admittedCost = 0

----------------------------------------------------------------------------
(* RedisFixedWindowCounter instances in several processes. *)

NextRedisFixedWindow ==
  \/ SharedTick
  \/ (\E p \in Callers, cost \in Costs : RedisFixedWindowConsume(p, cost))
       /\ UNCHANGED Local
  \/ (\E p \in Callers : RedisFixedWindowGet(p)) /\ UNCHANGED Local
  \/ (\E p \in Callers : RedisFixedWindowIncr(p)) /\ UNCHANGED Local
  \/ (\E p \in Callers : RedisFixedWindowExpire(p)) /\ UNCHANGED Local

SpecRedisFixedWindow == InitShared /\ [][NextRedisFixedWindow]_vars

(* C4: for a fixed identifier and window, under every interleaving of      *)
(* concurrent consume() calls issued by several processes sharing the      *)
(* store, the total cost of the admitted calls never exceeds limit.        *)
C4_FixedWindowNeverOverLimit ==
  \A w \in Times : InWindow(w) => wh[w].admittedCost <= shared.limit

(* C16: every Decision returned by any limiter variant has remaining >= 0, *)
(* whether admitted or rejected and under every interleaving of concurrent *)
(* callers on the same key; here for RedisFixedWindowCounter.              *)
C16_RemainingNonNegative == result.remaining >= 0

----------------------------------------------------------------------------
(* RedisFixedWindowCounter instances in several processes, on a store      *)
(* whose commands can fail, up to MaxFailureTime and MaxFailureCalls       *)
(* calls.                                                                  *)

NextRedisFixedWindowFailures ==
  \/ /\ NextRedisFixedWindow
     /\ now' <= MaxFailureTime
     /\ IssuedUpTo(MaxTime)' <= MaxFailureCalls
  \/ (\E p \in Callers : RedisFixedWindowFail(p)) /\ UNCHANGED Local

SpecRedisFixedWindowFailures ==
  InitShared /\ [][NextRedisFixedWindowFailures]_vars

Quiet == \A p \in Callers : callers[p].pc = "idle"

(* The value of the counter of the window that starts at w. *)
Counter(w) == RedisGet(store, FixedWindowKey(w), now)

----------------------------------------------------------------------------
(* DistributedSlidingWindowCounter instances on one MemoryStorage. *)

NextDistributed ==
  \/ SharedTick
  \/ (\E p \in Callers, cost \in Costs : DistributedAllowRequest(p, cost))
       /\ UNCHANGED Local
  \/ (\E p \in Callers : DistributedDecide(p)) /\ UNCHANGED Local
  \/ (\E p \in Callers : DistributedIncrement(p)) /\ UNCHANGED Local
  \/ (\E p \in Callers : DistributedSet(p)) /\ UNCHANGED Local
  \/ DistributedReset /\ UNCHANGED Local

SpecDistributed == InitShared /\ [][NextDistributed]_vars

(* C5: for a fixed identifier, within one window whose previous window is  *)
(* empty, under every interleaving of concurrent allowRequest calls on     *)
(* instances sharing one storage, the total cost of the admitted calls     *)
(* never exceeds limit.                                                    *)
C5_DistributedNeverOverLimit ==
  \A w \in Times :
    InWindow(w) /\ PreviousEmpty(w) => wh[w].admittedCost <= shared.limit

(* Whether an allowRequest(cost) made now, with no other call in flight,   *)
(* is admitted: the counts it reads, and its test.                         *)
DistributedWouldAdmit(cost) ==
  LET w == WindowStart(now)
      c == [IdleCaller EXCEPT
              !.cost = cost, !.now = now, !.windowStart = w,
              !.currentCount = MemoryGetValue(store, DistributedKey(w), now),
              !.previousCount =
                 MemoryGetValue(store, DistributedKey(w - shared.windowSize), now)]
  IN  DistributedAdmits(c)

(* C19: after reset() the limiter decides every request as a freshly       *)
(* constructed one would; in particular the next allowRequest(cost) with   *)
(* cost <= limit is admitted.  Here for DistributedSlidingWindowCounter,   *)
(* with no call in flight.                                                 *)
C19_ResetRestoresFresh ==
  /\ result.op = "reset"
  /\ \A p \in Callers : callers[p].pc = "idle"
  => \A cost \in Costs : cost <= shared.limit => DistributedWouldAdmit(cost)

----------------------------------------------------------------------------
(* RedisSlidingWindowCounter instances in several processes. *)

NextRedisSlidingWindow ==
  \/ SharedTick
  \/ (\E p \in Callers, cost \in Costs : RedisSlidingWindowConsume(p, cost))
       /\ UNCHANGED Local
  \/ (\E p \in Callers : RedisSlidingWindowEval(p)) /\ UNCHANGED Local

SpecRedisSlidingWindow == InitShared /\ [][NextRedisSlidingWindow]_vars

(* C6: when several instances sharing one store and one identifier issue   *)
(* more cost-1 consume() calls than limit, concurrently, inside a single   *)
(* window whose previous window is empty, exactly limit of the calls are   *)
(* admitted in every interleaving: never more, and, once all of them have  *)
(* returned, never fewer.                                                  *)
C6_ExactlyLimitAdmitted ==
  \A w \in Times :
    InWindow(w) /\ PreviousEmpty(w) /\ wh[w].unit =>
      /\ wh[w].admitted <= shared.limit
      /\ wh[w].issued > shared.limit /\ wh[w].done = wh[w].issued =>
           wh[w].admitted = shared.limit

(* More calls than limit, issued while another was in flight, all returned *)
(* inside their window, limit of them admitted and one rejected.           *)
C6_Witness ==
  \E w \in Times :
    /\ InWindow(w) /\ PreviousEmpty(w) /\ wh[w].unit
    /\ wh[w].overlapped
    /\ wh[w].issued > shared.limit
    /\ wh[w].done = wh[w].issued
    /\ wh[w].admitted = shared.limit
    /\ ~result.allowed

----------------------------------------------------------------------------
(* A fixed window of any size and limit under allowRequest, reset and the  *)
(* clock.                                                                  *)

InitFixedWindow ==
  /\ ClockInit /\ MiddlewareIdle
  /\ under = "FixedWindowLimiter"
  /\ \E w \in WindowSizes, l \in Limits : fw = FixedWindowNew(w, l, StartTime)
  /\ fwh = NoFixedWindowHistory
  /\ TokenBucketIdle /\ LeakyBucketIdle /\ SlidingWindowLogIdle
  /\ SlidingWindowCounterIdle /\ ConcurrentIdle /\ MultiTierIdle
  /\ SharedIdle

NotFixedWindow ==
  <<under, mw, TokenBucketVars, LeakyBucketVars, swl, SlidingWindowCounterVars,
    cr, crh, mt, mth, SharedVars>>

NextFixedWindow ==
  \/ Tick /\ UNCHANGED <<result, admittedAt, FixedWindowVars, NotFixedWindow>>
  \/ (\E cost \in Costs : FixedWindowAllowRequest(cost) /\ FixedWindowObserve(cost))
       /\ UNCHANGED NotFixedWindow
  \/ FixedWindowReset /\ FixedWindowObserveReset /\ UNCHANGED NotFixedWindow

SpecFixedWindow == InitFixedWindow /\ [][NextFixedWindow]_vars

(* C11: with limit L, cost-1 requests issued one millisecond before an     *)
(* aligned window ends and cost-1 requests issued one millisecond after    *)
(* the next one starts (999 ms and 1001 ms for a window of 1000 ms) are    *)
(* admitted, the first L of each batch: 2 * L admissions inside a span     *)
(* shorter than one window.                                                *)
C11_BoundaryBurst ==
  LET p == fwh.prev
      c == fwh.cur
  IN  /\ p.clean /\ c.clean
      /\ c.window = p.window + fw.windowSize
      /\ p.at = p.window + fw.windowSize - 1
      /\ c.at = c.window + 1
      => /\ p.admitted = Min(p.idx, fw.limit)
         /\ c.admitted = Min(c.idx, fw.limit)

(* L requests at the end of one window and L more at the start of the      *)
(* next, 2 ms apart in a window of 3 ms or more, all 2 * L admitted.       *)
C11_Witness ==
  /\ fw.limit >= 2
  /\ fw.windowSize > 2
  /\ fwh.prev.clean /\ fwh.cur.clean
  /\ fwh.cur.window = fwh.prev.window + fw.windowSize
  /\ fwh.prev.at = fwh.prev.window + fw.windowSize - 1
  /\ fwh.cur.at = fwh.cur.window + 1
  /\ fwh.prev.idx = fw.limit /\ fwh.prev.admitted = fw.limit
  /\ fwh.cur.idx = fw.limit /\ fwh.cur.admitted = fw.limit
  /\ fw.count = fw.limit

(* The last call was a cost-1 allowRequest in an aligned window that has   *)
(* had cost-1 requests only, and no reset.                                 *)
FixedWindowUnitCall ==
  /\ result.op = "allow"
  /\ result.cost = 1
  /\ fwh.cur.clean

(* Inside one aligned window the i-th cost-1 request is admitted with      *)
(* remaining = limit - i for i <= limit, and rejected with remaining 0     *)
(* after that.                                                             *)
FirstLimitAdmitted ==
  FixedWindowUnitCall =>
    IF fwh.cur.idx <= fw.limit
    THEN result.allowed /\ result.remaining = fw.limit - fwh.cur.idx
    ELSE ~result.allowed /\ result.remaining = 0

(* The last call was the first one of its window, after calls in an        *)
(* earlier window.                                                         *)
FirstInLaterWindow ==
  /\ FixedWindowUnitCall
  /\ fwh.cur.first
  /\ fwh.prev.window # -1

(* C12, as stated: FirstLimitAdmitted, and the first call whose time lies  *)
(* in a later aligned window resets count to 0 and is admitted with        *)
(* remaining = limit - 1.                                                  *)
C12_WindowCount ==
  /\ FirstLimitAdmitted
  /\ FirstInLaterWindow =>
       result.allowed /\ result.remaining = fw.limit - 1 /\ fw.count = 1

(* C12, amended: FirstLimitAdmitted, and when limit >= 1 the first call    *)
(* whose time lies in a later aligned window resets count to 0 and is      *)
(* admitted with remaining = limit - 1 (with limit 0 it is rejected, as    *)
(* every call is).                                                         *)
C12_WindowCountPositiveLimit ==
  /\ FirstLimitAdmitted
  /\ FirstInLaterWindow /\ fw.limit >= 1 =>
       result.allowed /\ result.remaining = fw.limit - 1 /\ fw.count = 1

(* A window that rejected its request number limit + 1, and then the first *)
(* request of a later window, admitted with remaining = limit - 1.         *)
C12_Witness ==
  /\ FirstInLaterWindow
  /\ fw.limit >= 2
  /\ fwh.prev.clean
  /\ fwh.prev.idx = fw.limit + 1
  /\ fwh.prev.admitted = fw.limit
  /\ result.allowed
  /\ result.remaining = fw.limit - 1

----------------------------------------------------------------------------
(* A sliding-window counter of any window and limit under allowRequest,    *)
(* reset, getCurrentCount and the clock.                                   *)

InitSlidingWindowCounter ==
  /\ ClockInit /\ MiddlewareIdle
  /\ under = "SlidingWindowCounterLimiter"
  /\ \E w \in WindowSizes, l \in Limits : swc = SlidingWindowCounterNew(w, l)
  /\ swch = NoSlidingWindowCounterHistory
  /\ TokenBucketIdle /\ LeakyBucketIdle /\ FixedWindowIdle
  /\ SlidingWindowLogIdle /\ ConcurrentIdle /\ MultiTierIdle
  /\ SharedIdle

NotSlidingWindowCounter ==
  <<under, mw, TokenBucketVars, LeakyBucketVars, FixedWindowVars, swl,
    cr, crh, mt, mth, SharedVars>>

NextSlidingWindowCounter ==
  \/ Tick /\ UNCHANGED <<result, admittedAt, SlidingWindowCounterVars,
                         NotSlidingWindowCounter>>
  \/ (\E cost \in Costs :
        SlidingWindowCounterAllowRequest(cost) /\ SlidingWindowCounterObserve(cost))
       /\ UNCHANGED NotSlidingWindowCounter
  \/ SlidingWindowCounterReset /\ SlidingWindowCounterObserveReset
       /\ UNCHANGED NotSlidingWindowCounter
  \/ SlidingWindowCounterGetCurrentCount
       /\ UNCHANGED <<swch, NotSlidingWindowCounter>>

SpecSlidingWindowCounter ==
  InitSlidingWindowCounter /\ [][NextSlidingWindowCounter]_vars

(* In window 1 of a new limiter exactly the first limit cost-1 requests    *)
(* are admitted.                                                           *)
FirstWindowFills ==
  swch.sc.phase \in {"w1", "w2"} => swch.sc.a1 = Min(swch.sc.n1, swc.limit)

(* C14: starting fresh, exactly L cost-1 requests are admitted in window 1 *)
(* and the next is rejected; with no further calls until exactly 50% into  *)
(* window 2, exactly floor(L / 2) more cost-1 requests are then admitted   *)
(* back-to-back and the following one is rejected.                         *)
C14_HalfWindowAdmitsHalf ==
  /\ FirstWindowFills
  /\ swch.sc.phase = "w2" => swch.sc.a2 = Min(swch.sc.n2, swc.limit \div 2)

(* What the code does at 50% into window 2: it floors the weighted count   *)
(* of window 1, and admits L - floor(L / 2) requests.                      *)
HalfWindowAdmitsRest ==
  /\ FirstWindowFills
  /\ swch.sc.phase = "w2" =>
       swch.sc.a2 = Min(swch.sc.n2, swc.limit - swc.limit \div 2)

(* The last two calls were allowRequest(cost) twice, with cost <= limit and *)
(* nothing in between, and the first of them was rejected.                 *)
RejectedThenRetried ==
  /\ swch.prev.op = "allow"
  /\ ~swch.prev.allowed
  /\ swch.prev.cost <= swc.limit
  /\ result.op = "allow"
  /\ result.cost = swch.prev.cost

(* The rejection at time t reports resetAt = current.start + windowSize,   *)
(* and retryAfter = (resetAt - t) / 1000 seconds.                          *)
RejectionReportsWindowEnd ==
  RejectedThenRetried =>
    /\ swch.prev.resetAt =
         Rat(GetWindowStart(swc.windowSize, swch.prevTime) + swc.windowSize, 1)
    /\ swch.prev.retryAfter =
         Rat(swch.prev.resetAt.num - swch.prevTime, MsPerSec)

(* C17, as stated: a request with cost <= limit rejected at time t with    *)
(* resetAt R, and retried with no other call in between, is still rejected *)
(* at every time in [t, R) and is admitted at time R.                      *)
C17_ResetAtIsEarliestAdmission ==
  /\ RejectionReportsWindowEnd
  /\ RejectedThenRetried =>
       /\ swch.time < swch.prev.resetAt.num => ~result.allowed
       /\ swch.time = swch.prev.resetAt.num => result.allowed

(* C17, amended: retried at a time in [t, R) the request is still rejected *)
(* when the previous window's count is 0 (otherwise the weight of the      *)
(* previous window decays and it can be admitted before R); retried at     *)
(* time R it is admitted exactly when the count of the window of t, which  *)
(* then weighs in whole as the previous window, plus cost is within limit. *)
C17_ResetAtIsWindowEnd ==
  /\ RejectionReportsWindowEnd
  /\ RejectedThenRetried =>
       /\ swch.time < swch.prev.resetAt.num /\ swc.previousWindow.count = 0
            => ~result.allowed
       /\ swch.time = swch.prev.resetAt.num =>
            (result.allowed <=>
               swc.previousWindow.count + result.cost <= swc.limit)

(* A request rejected in a window that had admitted limit, retried at that *)
(* window's end and rejected again.                                        *)
C17_Witness ==
  /\ RejectedThenRetried
  /\ swc.limit >= 2
  /\ swch.time = swch.prev.resetAt.num
  /\ swc.previousWindow.count = swc.limit
  /\ swc.currentWindow.count = 0
  /\ ~result.allowed

----------------------------------------------------------------------------
(* A sliding-window counter under uniformly spaced traffic: burst cost-1   *)
(* requests every interval ms, from a first arrival on.  A rate above one  *)
(* request per ms is a burst of several requests at each ms of the clock.  *)

Schedules ==
  {[interval |-> d, burst |-> m, due |-> StartTime + o, k |-> 0] :
     d \in 1..MaxInterval, m \in 1..MaxBurst, o \in 0..(MaxInterval - 1)}

InitUniformTraffic ==
  /\ ClockInit /\ MiddlewareIdle
  /\ under = "SlidingWindowCounterLimiter"
  /\ \E w \in WindowSizes, l \in Limits : swc = SlidingWindowCounterNew(w, l)
  /\ \E tr \in Schedules :
       /\ tr.burst > 1 => tr.interval = 1
       /\ tr.due < StartTime + tr.interval
       /\ swch = [NoSlidingWindowCounterHistory EXCEPT !.traffic = tr]
  /\ TokenBucketIdle /\ LeakyBucketIdle /\ FixedWindowIdle
  /\ SlidingWindowLogIdle /\ ConcurrentIdle /\ MultiTierIdle
  /\ SharedIdle

(* The clock does not pass an arrival that is due. *)
UniformTick ==
  /\ now < swch.traffic.due
  /\ Tick
  /\ UNCHANGED <<result, admittedAt, SlidingWindowCounterVars,
                 NotSlidingWindowCounter>>

UniformArrival ==
  LET tr == swch.traffic
      allowed == SlidingWindowCounterAllow(swc, now, 1).result.allowed
  IN  /\ now = tr.due
      /\ SlidingWindowCounterAllowRequest(1)
      /\ swch' = [SlidingWindowCounterObserved(1) EXCEPT
                    !.traffic = IF tr.k + 1 = tr.burst
                                THEN [tr EXCEPT !.due = @ + tr.interval, !.k = 0]
                                ELSE [tr EXCEPT !.k = @ + 1],
                    !.hist = IF allowed THEN Record(@, now, 1) ELSE @]
      /\ UNCHANGED NotSlidingWindowCounter

NextUniformTraffic == UniformTick \/ UniformArrival

SpecUniformTraffic == InitUniformTraffic /\ [][NextUniformTraffic]_vars

(* C15: when cost-1 requests arrive uniformly spaced in time, at any rate, *)
(* the number of admitted requests in any window of length windowSize      *)
(* never exceeds limit.                                                    *)
C15_UniformTrafficWithinLimit ==
  \A t \in Times :
    AdmittedIn(swch.hist, t - swc.windowSize + 1, t) <= swc.limit

(* What holds under any traffic: an aligned window admits at most limit.   *)
AlignedWindowWithinLimit ==
  /\ swc.currentWindow.count <= swc.limit
  /\ swc.previousWindow.count <= swc.limit

----------------------------------------------------------------------------
(* Any one of the six local limiters, under its own operations.            *)

InitLocalLimiters ==
  \/ InitTokenBucket
  \/ InitLeakyBucket
  \/ InitFixedWindow
  \/ InitSlidingWindowLog
  \/ InitSlidingWindowCounter
  \/ InitConcurrent

NextLocalLimiters ==
  \/ under = "TokenBucketLimiter" /\ NextTokenBucket
  \/ under = "LeakyBucketLimiter" /\ NextLeakyBucket
  \/ under = "FixedWindowLimiter" /\ NextFixedWindow
  \/ under = "SlidingWindowLogLimiter" /\ NextSlidingWindowLog
  \/ under = "SlidingWindowLogLimiter" /\ SlidingWindowLogReset
       /\ UNCHANGED NotSlidingWindowLog
  \/ under = "SlidingWindowCounterLimiter" /\ NextSlidingWindowCounter
  \/ under = "ConcurrentRequestsLimiter" /\ NextConcurrent

SpecLocalLimiters == InitLocalLimiters /\ [][NextLocalLimiters]_vars

TimeBased ==
  {"TokenBucketLimiter", "LeakyBucketLimiter", "FixedWindowLimiter",
   "SlidingWindowLogLimiter", "SlidingWindowCounterLimiter"}

(* C18: for the five time-based local limiters a Decision carries          *)
(* retryAfter exactly when allowed is false, and that retryAfter is a      *)
(* non-negative number of seconds; ConcurrentRequestsLimiter never sets    *)
(* retryAfter and always reports resetAt = 0.                              *)
C18_RetryAfterIffRejected ==
  result.op = "allow" =>
    /\ under \in TimeBased =>
         /\ result.retryAfter.present <=> ~result.allowed
         /\ result.retryAfter.present =>
              result.retryAfter.num >= 0 /\ result.retryAfter.den > 0
    /\ under = "ConcurrentRequestsLimiter" =>
         /\ ~result.retryAfter.present
         /\ result.resetAt = Rat(0, 1)

(* A concurrent limiter's rejection, with no retryAfter and resetAt 0. *)
C18_Witness ==
  /\ under = "ConcurrentRequestsLimiter"
  /\ result.op = "allow"
  /\ ~result.allowed
  /\ cr.maxConcurrent > 0
  /\ cr.activeRequests = cr.maxConcurrent
  /\ ~result.retryAfter.present
  /\ result.resetAt = Rat(0, 1)

(* A sliding-window log's rejection on an empty log, with retryAfter 0. *)
RetryAfterZero ==
  /\ under = "SlidingWindowLogLimiter"
  /\ result.op = "allow"
  /\ ~result.allowed
  /\ result.retryAfter = Rat(0, 1)

(* Every Decision of a local limiter has remaining >= 0. *)
LocalRemainingNonNegative == result.remaining >= 0

(* After reset() a local limiter is in the state its constructor would     *)
(* give it, up to the start of the sliding-window counter's empty current  *)
(* window.                                                                 *)
LocalResetRestoresFresh ==
  result.op = "reset" =>
    /\ under = "TokenBucketLimiter" =>
         tb = TokenBucketNew(tb.capacity, tb.refillRate, tb.lastRefill)
    /\ under = "LeakyBucketLimiter" =>
         lb = LeakyBucketNew(lb.capacity, lb.leakRate, lb.lastLeak)
    /\ under = "FixedWindowLimiter" =>
         fw = FixedWindowNew(fw.windowSize, fw.limit, fw.windowStart)
    /\ under = "SlidingWindowLogLimiter" =>
         swl = SlidingWindowLogNew(swl.windowSize, swl.limit)
    /\ under = "SlidingWindowCounterLimiter" =>
         /\ swc.currentWindow.count = 0
         /\ swc.previousWindow = [start |-> 0, count |-> 0]
    /\ under = "ConcurrentRequestsLimiter" =>
         cr = ConcurrentNew(cr.maxConcurrent)

----------------------------------------------------------------------------
(* Construction: new TokenBucketLimiter(capacity, refillRate) and          *)
(* new FixedWindowLimiter(windowSize, limit) with arguments of either      *)
(* sign, and the calls on the limiter that was constructed.                *)

ConstructorCapacities == (0 - 1)..MaxCapacity
ConstructorRates == {0 - 1000, 0} \cup Rates
ConstructorLimits == (0 - 1)..MaxLimit

InitUnconstructed ==
  /\ ClockInit /\ MiddlewareIdle
  /\ under = "none"
  /\ LocalIdle
  /\ SharedIdle

Constructed == [NoDecision EXCEPT !.op = "constructor"]

TokenBucketConstruct(capacity, refillRate) ==
  /\ under = "none"
  /\ under' = "TokenBucketLimiter"
  /\ tb' = TokenBucketNew(capacity, refillRate, now)
  /\ tbh' = TokenBucketHistoryNew(now)
  /\ result' = Constructed
  /\ UNCHANGED <<now, admittedAt, LeakyBucketVars, FixedWindowVars, swl,
                 SlidingWindowCounterVars, cr, crh, mt, mth, mw, SharedVars>>

FixedWindowConstruct(windowSize, limit) ==
  /\ under = "none"
  /\ under' = "FixedWindowLimiter"
  /\ fw' = FixedWindowNew(windowSize, limit, now)
  /\ fwh' = NoFixedWindowHistory
  /\ result' = Constructed
  /\ UNCHANGED <<now, admittedAt, TokenBucketVars, LeakyBucketVars, swl,
                 SlidingWindowCounterVars, cr, crh, mt, mth, mw, SharedVars>>

NextConstruction ==
  \/ \E c \in ConstructorCapacities, r \in ConstructorRates :
       TokenBucketConstruct(c, r)
  \/ \E w \in WindowSizes, l \in ConstructorLimits : FixedWindowConstruct(w, l)
  \/ under = "TokenBucketLimiter" /\ NextTokenBucket
  \/ under = "FixedWindowLimiter" /\ NextFixedWindow

SpecConstruction == InitUnconstructed /\ [][NextConstruction]_vars

ValidConfiguration ==
  /\ under = "TokenBucketLimiter" => tb.capacity >= 0 /\ tb.refillRate > 0
  /\ under = "FixedWindowLimiter" => fw.limit >= 0 /\ fw.windowSize > 0

(* C22: constructing a limiter with an invalid configuration (negative     *)
(* capacity or limit, zero or negative refill rate) fails at construction: *)
(* no limiter with such a configuration ever reaches a state in which      *)
(* allowRequest is evaluated.                                              *)
C22_InvalidConfigurationFailsFast ==
  result.op = "allow" => ValidConfiguration

----------------------------------------------------------------------------
(* The rateLimit middleware, with or without config.handler, serving       *)
(* requests of several clients.                                            *)

InitMiddleware ==
  /\ ClockInit
  /\ under = "rateLimit"
  /\ \E handler \in BOOLEAN : mw = MiddlewareNew(handler)
  /\ LocalIdle
  /\ SharedIdle

NotMiddleware ==
  <<now, result, admittedAt, under, TokenBucketVars, LeakyBucketVars,
    FixedWindowVars, swl, SlidingWindowCounterVars, cr, crh, mt, mth,
    SharedVars>>

NextMiddleware ==
  \/ (\E p \in Callers : MiddlewareSkip(p)) /\ UNCHANGED NotMiddleware
  \/ (\E p \in Callers, key \in Keys, outcome \in Outcomes :
        MiddlewareCall(p, key, outcome)) /\ UNCHANGED NotMiddleware
  \/ (\E p \in Callers : MiddlewareResume(p)) /\ UNCHANGED NotMiddleware
  \/ (\E p \in Callers : MiddlewareFinish(p)) /\ UNCHANGED NotMiddleware

SpecMiddleware == InitMiddleware /\ [][NextMiddleware]_vars

(* C24: when limiter.allowRequest throws or its promise rejects inside the *)
(* rateLimit middleware, the request is treated as admitted: next() is     *)
(* called, once, no 429 response is sent and config.handler is not run;    *)
(* and the limiter map is left as it was when allowRequest was called.     *)
FailedOpen(r) ==
  /\ r.nextCalls = 1
  /\ r.status # TooManyRequests
  /\ ~r.handled

C24_FailOpen ==
  /\ [](\A p \in Callers :
         mw.requests[p].pc = "done" /\ mw.requests[p].outcome = "throw"
           => FailedOpen(mw.requests[p]))
  /\ [][\A p \in Callers :
         /\ mw.requests[p].pc = "await"
         /\ mw.requests[p].outcome = "throw"
         /\ mw'.requests[p].pc = "done"
         => mw'.limiters = mw.limiters]_vars

(* A request whose limiter threw and that went on to next(), while the     *)
(* request of another key was answered 429.                                *)
C24_Witness ==
  \E p \in Callers : \E q \in Callers :
    /\ mw.requests[p].pc = "done"
    /\ mw.requests[p].outcome = "throw"
    /\ mw.requests[p].nextCalls = 1
    /\ mw.requests[q].pc = "done"
    /\ mw.requests[q].status = TooManyRequests
    /\ mw.requests[q].key # mw.requests[p].key
    /\ mw.limiters = Keys

----------------------------------------------------------------------------
(* The window transition of SlidingWindowCounterLimiter: a window of ten   *)
(* time units, so that half a window and 1.1 windows are whole numbers,    *)
(* and a clock that runs long enough for a fill at every offset of the     *)
(* window to be followed 1.1 windows later.                                *)

TransitionWindowSizes == {10}

TransitionTick ==
  /\ now < MaxTransitionTime
  /\ now' = now + 1

InitWindowTransition ==
  /\ ClockInit /\ MiddlewareIdle
  /\ under = "SlidingWindowCounterLimiter"
  /\ \E w \in TransitionWindowSizes, l \in Limits :
       swc = SlidingWindowCounterNew(w, l)
  /\ swch = NoSlidingWindowCounterHistory
  /\ TokenBucketIdle /\ LeakyBucketIdle /\ FixedWindowIdle
  /\ SlidingWindowLogIdle /\ ConcurrentIdle /\ MultiTierIdle
  /\ SharedIdle

NextWindowTransition ==
  \/ TransitionTick /\ UNCHANGED <<result, admittedAt, SlidingWindowCounterVars,
                                   NotSlidingWindowCounter>>
  \/ (\E cost \in Costs :
        /\ SlidingWindowCounterAllowRequest(cost)
        /\ SlidingWindowCounterObserveTransition(cost))
       /\ UNCHANGED NotSlidingWindowCounter
  \/ SlidingWindowCounterReset /\ SlidingWindowCounterObserveTransitionReset
       /\ UNCHANGED NotSlidingWindowCounter
  \/ SlidingWindowCounterGetCurrentCount
       /\ UNCHANGED <<swch, NotSlidingWindowCounter>>

SpecWindowTransition == InitWindowTransition /\ [][NextWindowTransition]_vars

(* The offset, inside its aligned window, of the time t at which the limit *)
(* was filled.                                                             *)
FillOffset == swch.wt.t - GetWindowStart(swc.windowSize, swch.wt.t)

LateFillAdmittedHalfWindowLater ==
  /\ swch.wt.phase = "mid"
  /\ 2 * FillOffset > swc.windowSize
  /\ swch.wt.mid
  /\ 2 * (now - swch.wt.t) = swc.windowSize

(* The limit was filled exactly half a window after the start of a window, *)
(* and the request at the start of the next window was rejected.           *)
MidFillRejectedAtWindowStart ==
  /\ swch.wt.phase = "mid"
  /\ 2 * FillOffset = swc.windowSize
  /\ ~swch.wt.mid
  /\ now = GetWindowStart(swc.windowSize, now)

----------------------------------------------------------------------------
(* The estimate of SlidingWindowCounterLimiter, call by call.  The call    *)
(* that makes a step is result'.cost; it sees the windows after the move   *)
(* to the window of now.                                                   *)

SlidingWindowCounterCalled == now' = now /\ result'.op = "allow"

(* windowSize times previous.count * overlapFraction + current.count, with *)
(* nothing rounded.                                                        *)
ExactEstimateTimesWindow(s, t) ==
  s.previousWindow.count * Max(0, s.windowSize - (t - s.currentWindow.start))
    + s.currentWindow.count * s.windowSize

(* C31: allowRequest(cost) is admitted iff previous.count * overlapFraction *)
(* + current.count + cost <= limit with the weighted previous count taken   *)
(* exactly, and on admission remaining = max(0, limit - estimate - cost).   *)
C31_ExactEstimateDecides ==
  [][SlidingWindowCounterCalled =>
       LET r == SlidingWindowCounterRoll(swc, now)
           w == r.windowSize
           e == ExactEstimateTimesWindow(r, now)
           cost == result'.cost
       IN  /\ result'.allowed <=> e + cost * w <= r.limit * w
           /\ result'.allowed =>
                result'.remaining * w = Max(0, r.limit * w - e - cost * w)]_vars

(* What the code decides by: the weighted previous count rounded down.     *)
FlooredEstimateDecides ==
  [][SlidingWindowCounterCalled =>
       LET r == SlidingWindowCounterRoll(swc, now)
           e == Floor(ExactEstimateTimesWindow(r, now)
                        - r.currentWindow.count * r.windowSize, r.windowSize)
                  + r.currentWindow.count
           cost == result'.cost
       IN  /\ result'.allowed <=> e + cost <= r.limit
           /\ result'.allowed =>
                result'.remaining = Max(0, r.limit - e - cost)]_vars

----------------------------------------------------------------------------
(* The two windows SlidingWindowCounterLimiter keeps.                      *)

PreviousIsAdjacent ==
  swc.currentWindow.start - swc.previousWindow.start = swc.windowSize

(* C32: in every state reached after at least two window transitions,      *)
(* including transitions that follow an idle gap of several windows,       *)
(* current.start - previous.start = windowSize.                            *)
C32_PreviousIsAdjacent == swch.rolls >= 2 => PreviousIsAdjacent

(* What the code keeps: previous is the window the limiter was in at its   *)
(* last call before the move, adjacent as long as no move skipped a window.*)
PreviousIsAdjacentWithoutGap ==
  swch.rolls >= 2 /\ ~swch.gap => PreviousIsAdjacent

(* Two moves, none over a gap, and previous is the window before current.  *)
AdjacentAfterTwoMoves ==
  swch.rolls >= 2 /\ ~swch.gap /\ PreviousIsAdjacent /\ result.op = "allow"

(* The last call was an allowRequest made at least two windows after the   *)
(* call before it.                                                         *)
CalledAfterIdleGap ==
  /\ result.op = "allow"
  /\ swch.prevTime >= 0
  /\ swch.time - swch.prevTime >= 2 * swc.windowSize

(* C35: if no call has been made for at least 2 * windowSize, the next     *)
(* allowRequest(cost) with cost <= limit is admitted: counts recorded in   *)
(* windows older than the one immediately before the current one never     *)
(* weigh into the estimate.                                                *)
C35_AdmittedAfterIdleGap ==
  CalledAfterIdleGap /\ result.cost <= swc.limit => result.allowed

(* What the code does after an idle gap: the window of the last call       *)
(* becomes previous, however old, and a request the limit could hold is    *)
(* rejected on its count.                                                  *)
StaleWindowRejects ==
  /\ CalledAfterIdleGap /\ result.cost <= swc.limit /\ ~result.allowed
  /\ swc.currentWindow.count = 0
  /\ swc.currentWindow.start - swc.previousWindow.start > swc.windowSize

----------------------------------------------------------------------------
(* FixedWindowLimiter with the cost it admitted kept time by time.         *)

NextFixedWindowHistory ==
  \/ /\ now < MaxCapTime
     /\ Tick
     /\ UNCHANGED <<result, admittedAt, FixedWindowVars, NotFixedWindow>>
  \/ (\E cost \in Costs :
        FixedWindowAllowRequest(cost) /\ FixedWindowObserveAdmitted(cost))
       /\ UNCHANGED NotFixedWindow
  \/ /\ fwh.resets < MaxResets
     /\ FixedWindowReset /\ FixedWindowObserveAdmittedReset
     /\ UNCHANGED NotFixedWindow

SpecFixedWindowHistory == InitFixedWindow /\ [][NextFixedWindowHistory]_vars

(* The cost admitted in each aligned window is at most limit, and the cost *)
(* admitted in each span s..s + windowSize at most 2 * limit.              *)
WindowCapped(hist) ==
  \A s \in Times :
    /\ s = GetCurrentWindow(fw.windowSize, s)
         => AdmittedIn(hist, s, s + fw.windowSize - 1) <= fw.limit
    /\ AdmittedIn(hist, s, s + fw.windowSize) <= 2 * fw.limit

(* C33: for any call sequence with a non-decreasing clock, the total       *)
(* admitted cost inside one aligned window never exceeds limit, and the    *)
(* total admitted cost inside any sliding span of length windowSize never  *)
(* exceeds 2 * limit.                                                      *)
C33_WindowCapped == WindowCapped(fwh.total)

(* C33, amended: the two caps hold for the cost admitted since the last    *)
(* reset; a reset inside a window gives that window a second limit.        *)
C33_WindowCappedBetweenResets == WindowCapped(fwh.since)

(* C33: no reset, and a span of windowSize across a boundary in which      *)
(* 2 * limit was admitted, limit on each side.                             *)
C33_Witness ==
  /\ fwh.resets = 0
  /\ fw.limit >= 2 /\ fw.windowSize >= 2
  /\ result.op = "allow" /\ result.allowed
  /\ \E s \in Times :
       /\ s + fw.windowSize \in Times
       /\ s # GetCurrentWindow(fw.windowSize, s)
       /\ AdmittedIn(fwh.since, s, s + fw.windowSize) = 2 * fw.limit
       /\ AdmittedIn(fwh.since, GetCurrentWindow(fw.windowSize, s),
                     GetCurrentWindow(fw.windowSize, s) + fw.windowSize - 1)
            = fw.limit

----------------------------------------------------------------------------
(* MultiTierLimiter: what a rejected call leaves in the members.           *)

MultiTierRejected ==
  result.op = "allow" /\ ~result.allowed /\ Rejecting # {}

(* Member i as the call found it, in the window of the call. *)
MemberBefore(i) == FixedWindowRoll(mth.before[i], mth.time)

(* C34: MultiTierLimiter is not atomic across tiers: when tier B rejects,  *)
(* every tier A before it stays charged with the cost of the request (no   *)
(* rollback); the rejecting tier is not charged and the tiers after it are *)
(* not called.                                                             *)
C34_NoRollback ==
  MultiTierRejected =>
    LET j == FirstOf(Rejecting)
    IN  \A i \in Members :
          mt.limiters[i] =
            IF i < j
            THEN [MemberBefore(i) EXCEPT !.count = @ + result.cost]
            ELSE IF i = j THEN MemberBefore(i)
            ELSE mth.before[i]

(* C34: the second tier rejected, and the first tier holds the cost of the *)
(* rejected request.                                                       *)
C34_Witness ==
  /\ MultiTierRejected
  /\ FirstOf(Rejecting) = 2
  /\ mt.limiters[1].count = MemberBefore(1).count + result.cost
  /\ mt.limiters[1].count <= mt.limiters[1].limit
  /\ mt.limiters[2] = MemberBefore(2)

----------------------------------------------------------------------------
(* rateLimit with algorithm 'concurrent': one ConcurrentRequestsLimiter,   *)
(* the requests that arrive, and the 'finish' and 'close' events of their  *)
(* responses.  A response that is sent emits 'finish' and then, when its   *)
(* connection ends, 'close'; one whose connection is cut emits 'close'     *)
(* alone.  Each handler runs at most once.                                 *)

Responses == 1..MaxCalls

(* One response: whether its request has come and was admitted, the events *)
(* it has emitted, and the release calls made for it.                      *)
NoResponse ==
  [state |-> "none", finished |-> FALSE, closed |-> FALSE, releases |-> 0]

ConcurrentMiddlewareNew == [responses |-> [r \in Responses |-> NoResponse]]

(* the request comes: limiter.allowRequest(), then 429 or the two handlers *)
ConcurrentMiddlewareArrive(r) ==
  LET out == ConcurrentAllow(cr, 1)
  IN  /\ mw.responses[r].state = "none"
      /\ cr' = out.state
      /\ result' = out.result
      /\ mw' = [mw EXCEPT !.responses[r].state =
                            IF out.result.allowed THEN "open" ELSE "rejected"]

(* res.on('finish', () => { limiter.release(); }) *)
ConcurrentMiddlewareFinish(r) ==
  /\ mw.responses[r].state = "open"
  /\ ~mw.responses[r].finished /\ ~mw.responses[r].closed
  /\ cr' = [cr EXCEPT !.activeRequests = Released(@, 1)]
  /\ result' = [NoDecision EXCEPT !.op = "release", !.cost = 1]
  /\ mw' = [mw EXCEPT !.responses[r].finished = TRUE,
                      !.responses[r].releases = @ + 1]

(* res.on('close', () => { limiter.release(); }) *)
ConcurrentMiddlewareClose(r) ==
  /\ mw.responses[r].state = "open"
  /\ ~mw.responses[r].closed
  /\ cr' = [cr EXCEPT !.activeRequests = Released(@, 1)]
  /\ result' = [NoDecision EXCEPT !.op = "release", !.cost = 1]
  /\ mw' = [mw EXCEPT !.responses[r].closed = TRUE,
                      !.responses[r].releases = @ + 1]

InitConcurrentMiddleware ==
  /\ ClockInit
  /\ under = "rateLimit concurrent"
  /\ mw = ConcurrentMiddlewareNew
  /\ \E m \in 1..MaxConcurrent : cr = ConcurrentNew(m)
  /\ crh = NoConcurrentHistory
  /\ TokenBucketIdle /\ LeakyBucketIdle /\ FixedWindowIdle
  /\ SlidingWindowLogIdle /\ SlidingWindowCounterIdle /\ MultiTierIdle
  /\ SharedIdle

NotConcurrentMiddleware ==
  <<now, admittedAt, under, TokenBucketVars, LeakyBucketVars, FixedWindowVars,
    swl, SlidingWindowCounterVars, crh, mt, mth, SharedVars>>

NextConcurrentMiddleware ==
  \/ (\E r \in Responses : ConcurrentMiddlewareArrive(r))
       /\ UNCHANGED NotConcurrentMiddleware
  \/ (\E r \in Responses : ConcurrentMiddlewareFinish(r))
       /\ UNCHANGED NotConcurrentMiddleware
  \/ (\E r \in Responses : ConcurrentMiddlewareClose(r))
       /\ UNCHANGED NotConcurrentMiddleware

SpecConcurrentMiddleware ==
  InitConcurrentMiddleware /\ [][NextConcurrentMiddleware]_vars

(* The admitted requests whose responses have not completed. *)
InFlight ==
  {r \in Responses : /\ mw.responses[r].state = "open"
                     /\ ~mw.responses[r].finished
                     /\ ~mw.responses[r].closed}

(* C36: in every interleaving of request arrivals and 'finish' and 'close' *)
(* events, release is applied exactly once per admitted request, so the    *)
(* number of admitted requests whose responses have not yet completed      *)
(* never exceeds the limit N.                                              *)
C36_ReleasedOncePerAdmitted ==
  /\ \A r \in Responses :
       mw.responses[r].releases
         = IF mw.responses[r].state = "open" /\ r \notin InFlight THEN 1 ELSE 0
  /\ Cardinality(InFlight) <= cr.maxConcurrent

(* The second half of C36 alone: never more than N admitted requests with  *)
(* an uncompleted response.                                                *)
InFlightWithinLimit == Cardinality(InFlight) <= cr.maxConcurrent

(* What the code does: one release for each event a response has emitted.  *)
ReleasedOncePerEvent ==
  \A r \in Responses :
    mw.responses[r].releases
      = (IF mw.responses[r].finished THEN 1 ELSE 0)
          + (IF mw.responses[r].closed THEN 1 ELSE 0)

----------------------------------------------------------------------------
(* What a rejected allowRequest leaves behind, for the six local limiters. *)

(* The Decision the limiter would give to allowRequest(cost) at time t.    *)
DecisionAt(t, cost) ==
  CASE under = "TokenBucketLimiter" -> TokenBucketAllow(tb, t, cost).result
    [] under = "LeakyBucketLimiter" -> LeakyBucketAllow(lb, t, cost).result
    [] under = "FixedWindowLimiter" -> FixedWindowAllow(fw, t, cost).result
    [] under = "SlidingWindowLogLimiter" ->
         SlidingWindowLogAllow(swl, t, cost).result
    [] under = "SlidingWindowCounterLimiter" ->
         SlidingWindowCounterAllow(swc, t, cost).result
    [] OTHER -> ConcurrentAllow(cr, cost).result

LocalRejection == now' = now /\ result'.op = "allow" /\ ~result'.allowed

SameNextDecisions ==
  \A t \in now..MaxTime : \A cost \in Costs :
    DecisionAt(t, cost)' = DecisionAt(t, cost)

(* C37: a rejected allowRequest consumes nothing: for each of the six      *)
(* local limiters the Decisions of later calls are the same as if the      *)
(* rejected call had never been made; here, for the call that comes next,  *)
(* whenever it comes and whatever its cost.                                *)
C37_RejectionConsumesNothing == [][LocalRejection => SameNextDecisions]_vars

(* The limiters a rejection leaves as it found them, as far as the next    *)
(* call can tell: all but the leaky bucket, which loses the time since its *)
(* last drain, and the sliding-window counter, which moves its windows.    *)
RejectionConsumesNothingElsewhere ==
  [][/\ LocalRejection
     /\ under \notin {"LeakyBucketLimiter", "SlidingWindowCounterLimiter"}
     => SameNextDecisions]_vars

----------------------------------------------------------------------------
(* A caller that keeps calling allowRequest(1) on a LeakyBucketLimiter,    *)
(* waiting up to MaxGap ms between two calls, for ever.  The limiter reads *)
(* the clock only as now - lastLeak, and never reads the admission times   *)
(* in its queue, so after each call the clock is set back to StartTime,    *)
(* and lastLeak and the queued times with it (not below 0): the calls      *)
(* decide as they would on the running clock, and the states are finitely  *)
(* many.                                                                   *)

SetBack(b, by) ==
  [b EXCEPT !.lastLeak = @ - by,
            !.queue = [i \in 1..Len(b.queue) |-> Max(0, b.queue[i] - by)]]

(* the time between two polls goes by *)
RetryWait ==
  /\ now - lb.lastLeak < MaxGap
  /\ now' = now + 1
  /\ UNCHANGED <<result, admittedAt, LeakyBucketVars, NotLeakyBucket>>

(* the caller polls: allowRequest(1) *)
RetryPoll ==
  LET out == LeakyBucketAllow(lb, now, 1)
  IN  /\ lb' = SetBack(out.state, now - StartTime)
      /\ result' = out.result
      /\ now' = StartTime
      /\ UNCHANGED <<admittedAt, twin, lbh, NotLeakyBucket>>

InitLeakyBucketRetry ==
  /\ ClockInit /\ MiddlewareIdle
  /\ under = "LeakyBucketLimiter"
  /\ \E c \in 1..MaxCapacity, r \in Rates :
       /\ lb = LeakyBucketNew(c, r, StartTime)
       /\ twin = TwinNew(LeakyBucketNew(c, r, StartTime))
  /\ lbh = LeakyBucketHistoryNew
  /\ TokenBucketIdle /\ FixedWindowIdle /\ SlidingWindowLogIdle
  /\ SlidingWindowCounterIdle /\ ConcurrentIdle /\ MultiTierIdle
  /\ SharedIdle

NextLeakyBucketRetry == RetryWait \/ RetryPoll

(* Time keeps advancing and the caller keeps polling. *)
SpecLeakyBucketRetry ==
  /\ InitLeakyBucketRetry
  /\ [][NextLeakyBucketRetry]_vars
  /\ WF_vars(RetryWait)
  /\ WF_vars(RetryPoll)

RetryRejected == result.op = "allow" /\ ~result.allowed

RetryAdmitted == result.op = "allow" /\ result.allowed

(* C38: with leakRate > 0 and time advancing, a caller that keeps retrying *)
(* a rejected cost-1 request on a full bucket is eventually admitted,      *)
(* however short the gap between consecutive retries.                      *)
C38_RetryEventuallyAdmitted == RetryRejected ~> RetryAdmitted

(* A step that is a poll: the clock does not go on. *)
Polled == now' <= now /\ result'.op = "allow"

(* What the code gives: a poll made at least one slot's time after the     *)
(* call before it is admitted.                                             *)
PollAfterOneSlotAdmitted ==
  [][/\ Polled
     /\ (now - lb.lastLeak) * lb.leakRate >= MsPerSec
     => result'.allowed]_vars

(* A poll made before one slot's time has passed finds the bucket as full  *)
(* as the poll before it did, whatever time has passed in all.             *)
PollLosesWaitedTime ==
  [][/\ Polled
     /\ Len(lb.queue) = lb.capacity
     /\ (now - lb.lastLeak) * lb.leakRate < MsPerSec
     => ~result'.allowed /\ Len(lb'.queue) = lb.capacity
          /\ lb'.lastLeak = now']_vars

----------------------------------------------------------------------------
(* MemoryStorage.increment, called by several callers on one key.  get and *)
(* set have no await inside and run where they are called; increment       *)
(* stops at its two awaits, after get and after set.                       *)

IncrementKey == Key("rate_limit", 0)

PriorValues == {0, 1}

(* One caller of increment: where its call stands, the amount, what get    *)
(* gave, the new value, what the last call returned and the calls made.    *)
NoIncrement ==
  [pc |-> "idle", amount |-> 0, read |-> 0, newValue |-> 0, returned |-> -1,
   calls |-> 0]

(* History: the value before the first call (-1: the key was absent), the  *)
(* calls started, the sum of the amounts of the calls that returned, and   *)
(* whether a call started while another was under way.                     *)
MemoryHistoryNew(prior) ==
  [prior |-> prior, started |-> 0, sum |-> 0, overlapped |-> FALSE]

(* increment(key, amount) up to: const current = await this.get(key) || 0 *)
MemoryIncrementCall(p, amount) ==
  /\ callers[p].pc = "idle"
  /\ wh.started < MaxCalls
  /\ store' = MemoryGetStore(store, IncrementKey, now)
  /\ callers' = [callers EXCEPT ![p].pc = "get", ![p].amount = amount,
                   ![p].read = MemoryGetValue(store, IncrementKey, now)]
  /\ wh' = [wh EXCEPT !.started = @ + 1,
                      !.overlapped = @ \/ \E q \in Callers \ {p} :
                                            callers[q].pc # "idle"]
  /\ UNCHANGED <<now, result, admittedAt, shared>>

(* const newValue = current + amount; await this.set(key, newValue) *)
MemoryIncrementSet(p) ==
  LET c == callers[p]
  IN  /\ c.pc = "get"
      /\ store' = MemorySet(store, IncrementKey, c.read + c.amount, 0, now)
      /\ callers' = [callers EXCEPT ![p].pc = "set",
                                    ![p].newValue = c.read + c.amount]
      /\ UNCHANGED <<now, result, admittedAt, shared, wh>>

(* return newValue *)
MemoryIncrementReturn(p) ==
  LET c == callers[p]
  IN  /\ c.pc = "set"
      /\ callers' = [callers EXCEPT ![p].pc = "idle",
                                    ![p].returned = c.newValue,
                                    ![p].calls = @ + 1]
      /\ wh' = [wh EXCEPT !.sum = @ + c.amount]
      /\ UNCHANGED <<now, result, admittedAt, shared, store>>

InitMemoryStorage ==
  /\ ClockInit /\ MiddlewareIdle
  /\ under = "MemoryStorage"
  /\ LocalIdle
  /\ shared = SharedNew(1, 0)
  /\ \E prior \in PriorValues \cup {-1} :
       /\ store = IF prior = -1 THEN EmptyStore
                  ELSE MemorySet(EmptyStore, IncrementKey, prior, 0, StartTime)
       /\ wh = MemoryHistoryNew(prior)
  /\ callers = [p \in Callers |-> NoIncrement]

NextMemoryStorage ==
  \/ (\E p \in Callers, amount \in Costs : MemoryIncrementCall(p, amount))
       /\ UNCHANGED Local
  \/ (\E p \in Callers : MemoryIncrementSet(p)) /\ UNCHANGED Local
  \/ (\E p \in Callers : MemoryIncrementReturn(p)) /\ UNCHANGED Local

SpecMemoryStorage == InitMemoryStorage /\ [][NextMemoryStorage]_vars

(* Every started increment has returned. *)
IncrementsDone == \A p \in Callers : callers[p].pc = "idle"

StoredValue == MemoryGetValue(store, IncrementKey, now)

PriorValue == Max(0, wh.prior)

(* The orders in which the callers' calls can be put one after another. *)
SerialOrders ==
  {f \in [1..NumCallers -> Callers] :
     \A i, j \in 1..NumCallers : f[i] = f[j] => i = j}

RECURSIVE RunningTotal(_, _)
RunningTotal(f, i) ==
  IF i = 0 THEN PriorValue ELSE RunningTotal(f, i - 1) + callers[f[i]].amount

(* C39: increment is atomic per key: once the concurrently started         *)
(* increment(key, a_i) calls have returned, the stored value is the prior  *)
(* value (0 if absent) plus the sum of all a_i, and when every caller has  *)
(* made one call the returned values are the running totals of some serial *)
(* order.                                                                  *)
C39_IncrementAtomic ==
  IncrementsDone =>
    /\ StoredValue = PriorValue + wh.sum
    /\ (\A p \in Callers : callers[p].calls = 1) =>
         \E f \in SerialOrders :
           \A i \in 1..NumCallers :
             callers[f[i]].returned = RunningTotal(f, i)

(* What the code gives: calls that do not overlap add up.                  *)
SerialIncrementsAddUp ==
  IncrementsDone /\ ~wh.overlapped => StoredValue = PriorValue + wh.sum

(* Each call returns what it read plus its amount, and two calls that were *)
(* both under way before either wrote have read the same value.            *)
IncrementReturnsReadPlusAmount ==
  \A p \in Callers :
    callers[p].calls > 0 /\ callers[p].pc = "idle" =>
      callers[p].returned = callers[p].read + callers[p].amount

(* Two overlapping calls have returned and one amount is lost. *)
LostIncrement ==
  /\ IncrementsDone /\ wh.overlapped /\ wh.started = NumCallers
  /\ \A p \in Callers : callers[p].calls = 1
  /\ StoredValue < PriorValue + wh.sum

----------------------------------------------------------------------------
(* DistributedSlidingWindowCounter: what the current-window key holds once *)
(* the calls of the window have returned.                                  *)

(* The value stored under the key of the window that starts at w. *)
DistributedCounter(w) == MemoryGetValue(store, DistributedKey(w), now)

(* C40: once all concurrently issued allowRequest calls on one key in one  *)
(* window have completed, the value stored under the current-window key    *)
(* equals the total cost of the calls that were admitted in that window.   *)
C40_CounterHoldsAdmittedCost ==
  Quiet /\ under = "shared" =>
    DistributedCounter(WindowStart(now)) = wh[WindowStart(now)].admittedCost

(* What the code gives: the counter holds the admitted cost as long as no  *)
(* two calls of the window overlapped.                                     *)
SerialCallsCounted ==
  Quiet /\ ~wh[WindowStart(now)].overlapped =>
    DistributedCounter(WindowStart(now)) = wh[WindowStart(now)].admittedCost

(* Two overlapping calls were admitted and the counter holds less than     *)
(* their cost.                                                             *)
AdmittedIncrementLost ==
  /\ Quiet
  /\ wh[WindowStart(now)].overlapped
  /\ wh[WindowStart(now)].admitted = 2
  /\ DistributedCounter(WindowStart(now)) < wh[WindowStart(now)].admittedCost

====
